---- MODULE Spec2Model ----
(***************************************************************************)
(* Model of silx.gui.plot.Interaction: the StateMachine controller, its    *)
(* State base class, the ClickOrDrag state machine built on them and the   *)
(* ClickDragManager; of the transposed array views of                      *)
(* silx.utils.array_like (DatasetView, ListOfImages); and of the           *)
(* FrameBrowser and HorizontalSliderWithBrowser widgets.                   *)
(*                                                                         *)
(* One call of the public API (a constructor, handleEvent) is one action.  *)
(* A call is computed on a record m holding the machine's fields and the   *)
(* calls made so far; the action then stores the fields back.              *)
(***************************************************************************)
EXTENDS Integers, Sequences, FiniteSets, TLC

VARIABLES
    pc,            \* "new" before __init__, "ready" after it, "failed" when it raised
    machineCls,    \* class of the machine object
    methods,       \* class name -> the 'on...' attributes the class defines
    states,        \* StateMachine.states: state name -> State subclass
    state,         \* StateMachine.state: the active State instance
    clickButtons,  \* ClickOrDrag.clickButtons
    dragButtons,   \* ClickOrDrag.dragButtons
    clickers,      \* ClickDragManager.clickers: the button of each, in order
    draggers,      \* ClickDragManager.draggers: the button of each, in order
    currentDragger, \* ClickDragManager.currentDragger: its index in draggers, 0 for None
    call,          \* the API call handled last, with its inputs
    trace,         \* the calls that API call made, in order
    result,        \* its return value
    raised,        \* the exception it raised, "None" when it returned
    pending,       \* button -> the press of it that may still become a click
    gesture,       \* the gesture in progress and the callbacks it has fired
    declined,      \* what the handlers answered to the gesture in progress
    view,          \* a DatasetView: its dataset and its transposition
    reference,     \* the numpy array given the same transpositions as view
    transposed,    \* how many times view was transposed
    widget         \* a FrameBrowser or HorizontalSliderWithBrowser: its fields

vars == <<pc, machineCls, methods, states, state, clickButtons, dragButtons,
          clickers, draggers, currentDragger,
          call, trace, result, raised, pending, gesture, declined,
          view, reference, transposed, widget>>

\* What an observer of the events and callbacks keeps.
gestureVars == <<pending, gesture>>
\* What the calls of the machines' API leave alone.
aside == <<gestureVars, declined, view, reference, transposed, widget>>

\* ------------------------------------------------------------------ bounds

\* Object identities a State instance can get: 1..MaxObjIds.
MaxObjIds == 2
\* goto calls one handler of a user-defined state machine makes, at most.
MaxGotos == 1
\* The pointer is seen at x in {0, MaxX - 1, MaxX} and y in {0, MaxY}.
MaxX == 4
MaxY == 3
\* Clickers, and draggers, a ClickDragManager has, at most.
MaxHandlers == 2
\* Length of an axis of a dataset, at most.
MaxDim == 3
\* transpose calls and .T reads made on a view, at most.
MaxTransposes == 2
\* Number of axes of a dataset, at most: that of the tests' VOLUME.
MaxNdim == 3
\* Frame numbers and numbers of frames given to a browser: up to MaxFrames.
MaxFrames == 3
\* Steps asked of a playing slider: 0..MaxStep.
MaxStep == 2
\* The default range of a QSlider.
QSliderMinimum == 0
QSliderMaximum == 99
\* The range of the spin boxes of the play button's menu.
SpinBoxMinimum == 1
SpinBoxMaximum == 1000000

ObjIds == 1..MaxObjIds

\* ------------------------------------------------------------------ values

\* The machine every State instance of the model is created by.
Self == "self"

\* No State instance: StateMachine.state before __init__ has assigned it.
NoState ==
    [cls |-> "None", id |-> 0, machine |-> "None", initPos |-> <<>>, button |-> "None"]

\* A fresh State instance: State.__init__ only stores the machine.
State_init(cls, id, machine) ==
    [cls |-> cls, id |-> id, machine |-> machine, initPos |-> <<>>, button |-> "None"]

\* Python truth value of a returned True / False / None.
Truthy(v) == v = "True"

LowerCase ==
    <<"a", "b", "c", "d", "e", "f", "g", "h", "i", "j", "k", "l", "m",
      "n", "o", "p", "q", "r", "s", "t", "u", "v", "w", "x", "y", "z">>

UpperCase ==
    <<"A", "B", "C", "D", "E", "F", "G", "H", "I", "J", "K", "L", "M",
      "N", "O", "P", "Q", "R", "S", "T", "U", "V", "W", "X", "Y", "Z">>

\* str.upper() of a one-character string.
upper(c) ==
    IF \E i \in DOMAIN LowerCase : LowerCase[i] = c
    THEN UpperCase[CHOOSE i \in DOMAIN LowerCase : LowerCase[i] = c]
    ELSE c

\* 'on' + eventName[0].upper() + eventName[1:], names being tuples of characters.
HandlerName(eventName) ==
    <<"o", "n">> \o <<upper(eventName[1])>> \o SubSeq(eventName, 2, Len(eventName))

\* ------------------------------------------------------- the call record

\* One entry of the trace: op called on the object of class cls (a State
\* instance with identity on, or the machine: on = 0) while the machine's
\* active state was the instance with identity active.
\* ret is what the call returned.
LogRet(m, op, cls, on, args, ret) ==
    [m EXCEPT !.trace = Append(@, [op |-> op, cls |-> cls, on |-> on, args |-> args,
                                   ret |-> ret, active |-> m.state.id])]

Log(m, op, cls, on, args) == LogRet(m, op, cls, on, args, "None")

\* return v, unless an exception is propagating.
Return(m, v) == IF m.raised # "None" THEN m ELSE [m EXCEPT !.result = v]

\* ------------------------------------------------------------ ClickOrDrag

LEFT_BTN == "left"
RIGHT_BTN == "right"

DRAG_THRESHOLD_SQUARE_DIST == 5 * 5

\* A call of a method of the i-th clicker or dragger, returning ret.
\* m.yes.clickers and m.yes.draggers are the handlers whose accept, click
\* and begin return True during this API call; the others return False.
Bool(b) == IF b THEN "True" ELSE "False"

ClickInteraction(m, method, i, args, ret) ==
    LogRet(m, method, "ClickInteraction", i, args, ret)

DragInteraction(m, method, i, args, ret) ==
    LogRet(m, method, "DragInteraction", i, args, ret)

\* ClickDragManager.click(x, y, btn): the clickers of the button, in order,
\* until one returns True.
RECURSIVE ClickDragManager_click(_, _, _, _, _)
ClickDragManager_click(m, i, x, y, btn) ==
    IF i > Len(m.clickers)
    THEN m
    ELSE IF btn = m.clickers[i]
         THEN LET m1 == ClickInteraction(m, "ClickInteraction.click", i, <<x, y>>,
                                         Bool(i \in m.yes.clickers))
              IN  IF i \in m.yes.clickers
                  THEN m1
                  ELSE ClickDragManager_click(m1, i + 1, x, y, btn)
         ELSE ClickDragManager_click(m, i + 1, x, y, btn)

\* A faulty variant of ClickDragManager.beginDrag: a dragger whose begin
\* returned False stays the current dragger.
ClickDragManager_beginDrag_KeepDragger(m, x, y, btn) ==
    IF m.currentDragger # 0
    THEN LET yes == m.currentDragger \in m.yes.draggers
         IN  [DragInteraction(m, "DragInteraction.begin", m.currentDragger,
                              <<x, y>>, Bool(yes))
                EXCEPT !.begin = Bool(yes)]
    ELSE [m EXCEPT !.begin = "False"]

\* ClickDragManager.beginDrag(x, y, btn); its return value is left in begin.
ClickDragManager_beginDrag(m, x, y, btn) ==
    IF m.currentDragger # 0
    THEN IF btn # m.draggers[m.currentDragger]
         THEN [m EXCEPT !.raised = "AssertionError"]
         ELSE LET yes == m.currentDragger \in m.yes.draggers
                  m1 == DragInteraction(m, "DragInteraction.begin", m.currentDragger,
                                        <<x, y>>, Bool(yes))
              IN  IF yes
                  THEN [m1 EXCEPT !.begin = "True"]
                  ELSE [m1 EXCEPT !.currentDragger = 0, !.begin = "False"]
    ELSE [m EXCEPT !.begin = "False"]

\* ClickDragManager.drag(x, y, btn)
ClickDragManager_drag(m, x, y, btn) ==
    IF m.currentDragger # 0
    THEN DragInteraction(m, "DragInteraction.drag", m.currentDragger, <<x, y>>, "None")
    ELSE m

\* ClickDragManager.endDrag(startPoint, endPoint, btn)
ClickDragManager_endDrag(m, startPoint, endPoint, btn) ==
    IF m.currentDragger # 0
    THEN [DragInteraction(m, "DragInteraction.end", m.currentDragger,
                          <<startPoint, endPoint>>, "None")
            EXCEPT !.currentDragger = 0]
    ELSE m

\* A faulty variant of cancel: the dragger stays the current one.
ClickDragManager_cancel_KeepDragger(m) ==
    IF m.currentDragger # 0
    THEN DragInteraction(m, "DragInteraction.cancel", m.currentDragger, <<>>, "None")
    ELSE m

\* ClickDragManager.cancel()
ClickDragManager_cancel(m) ==
    IF m.currentDragger # 0
    THEN [DragInteraction(m, "DragInteraction.cancel", m.currentDragger, <<>>, "None")
            EXCEPT !.currentDragger = 0]
    ELSE m

\* machine.click, drag, endDrag: hooks that return None in ClickOrDrag,
\* overridden by ClickDragManager.
click(m, x, y, btn) ==
    LET m1 == Log(m, "click", m.cls, 0, <<x, y, btn>>)
    IN  IF m.cls = "ClickDragManager" THEN ClickDragManager_click(m1, 1, x, y, btn) ELSE m1

drag(m, x, y, btn) ==
    LET m1 == Log(m, "drag", m.cls, 0, <<x, y, btn>>)
    IN  IF m.cls = "ClickDragManager" THEN ClickDragManager_drag(m1, x, y, btn) ELSE m1

endDrag(m, startPoint, endPoint, btn) ==
    LET m1 == Log(m, "endDrag", m.cls, 0, <<startPoint, endPoint, btn>>)
    IN  IF m.cls = "ClickDragManager"
        THEN ClickDragManager_endDrag(m1, startPoint, endPoint, btn)
        ELSE m1

\* machine.beginDrag: ClickOrDrag.beginDrag returns None unless a subclass
\* overrides it; an override's answer is m.begin, ClickDragManager's its
\* dragger's. The answer is in the begin field of the result.
beginDrag(m, x, y, btn) ==
    IF m.cls = "ClickDragManager"
    THEN LET r == ClickDragManager_beginDrag(m, x, y, btn)
         IN  ClickDragManager_beginDrag(
                 LogRet(m, "beginDrag", m.cls, 0, <<x, y, btn>>, r.begin), x, y, btn)
    ELSE LogRet(m, "beginDrag", m.cls, 0, <<x, y, btn>>, m.begin)

\* ----------------------------------------------------- State, StateMachine

\* State.leaveState of the active state (no subclass of the model overrides it).
leaveState(m) == Log(m, "leaveState", m.state.cls, m.state.id, <<>>)

\* Click.enterState and ClickOrDrag.enterState (x, y, btn).
Click_enterState(m, args) ==
    [m EXCEPT !.state.initPos = <<args[1], args[2]>>, !.state.button = args[3]]

\* A faulty variant of Drag.enterState: drag is not called on entry.
Drag_enterState_NoDrag(m, args) ==
    [m EXCEPT !.state.initPos = args[1], !.state.button = args[3]]

\* Drag.enterState(initPos, curPos, btn).
Drag_enterState(m, args) ==
    LET m1 == [m EXCEPT !.state.initPos = args[1], !.state.button = args[3]]
    IN  drag(m1, args[2][1], args[2][2], args[3])

\* enterState(*args) of the active state, by its class; State.enterState is pass.
enterState(m, args) ==
    LET m1 == Log(m, "enterState", m.state.cls, m.state.id, args)
    IN  CASE m.state.cls \in {"ClickOrDrag.Click", "ClickOrDrag.ClickOrDrag"} ->
                 Click_enterState(m1, args)
          [] m.state.cls = "ClickOrDrag.Drag" -> Drag_enterState(m1, args)
          [] OTHER -> m1

\* The identity of an object created while the State instance live is
\* referenced: any identity but that one; the choice is not observable.
FreshId(live) == (live % MaxObjIds) + 1

\* A faulty variant of the lookup: an unknown name silently selects no new state.
NewState_Lenient(m, name) ==
    IF name \notin DOMAIN m.states
    THEN m
    ELSE LET id == FreshId(m.state.id)
             m1 == Log(m, "State.__init__", m.states[name], id, <<Self>>)
         IN  [m1 EXCEPT !.state = State_init(m.states[name], id, Self)]

\* self.states[name](self): KeyError when name is no key, else a new instance,
\* at an identity no live State instance has (the old state is still referenced).
NewState(m, name) ==
    IF name \notin DOMAIN m.states
    THEN [m EXCEPT !.raised = "KeyError"]
    ELSE LET id == FreshId(m.state.id)
             m1 == Log(m, "State.__init__", m.states[name], id, <<Self>>)
         IN  [m1 EXCEPT !.state = State_init(m.states[name], id, Self)]

\* A faulty variant of StateMachine.__init__: the extra arguments are not passed on.
StateMachine_init_NoArgs(m, initState, args) ==
    LET m1 == NewState(m, initState)
    IN  IF m1.raised # "None" THEN m1 ELSE enterState(m1, <<>>)

\* StateMachine.__init__(states, initState, *args); self.states is already in m.
StateMachine_init(m, initState, args) ==
    LET m1 == NewState(m, initState)
    IN  IF m1.raised # "None" THEN m1 ELSE enterState(m1, args)

\* A faulty variant of _goto: the active state is kept and entered again.
_goto_KeepState(m, name, args) ==
    LET m1 == leaveState(m)
    IN  IF name \notin DOMAIN m.states
        THEN [m1 EXCEPT !.raised = "KeyError"]
        ELSE enterState(m1, args)

\* A faulty variant of _goto: the new state is entered before it is made the active one.
_goto_EnterBeforeSet(m, name, args) ==
    LET m1 == leaveState(m)
        m2 == NewState(m1, name)
    IN  IF m2.raised # "None"
        THEN m2
        ELSE [Log(m1, "State.__init__", m2.state.cls, m2.state.id, <<Self>>)
                 EXCEPT !.trace = Append(@, [op |-> "enterState", cls |-> m2.state.cls,
                                             on |-> m2.state.id, args |-> args,
                                             ret |-> "None", active |-> m.state.id]),
                        !.state = m2.state]

\* A faulty variant of _goto: the name is looked up before the active state
\* is left.
_goto_LookupFirst(m, name, args) ==
    IF name \notin DOMAIN m.states
    THEN [m EXCEPT !.raised = "KeyError"]
    ELSE enterState(NewState(leaveState(m), name), args)

\* StateMachine._goto(state, *args)
_goto(m, name, args) ==
    LET m1 == leaveState(m)
        m2 == NewState(m1, name)
    IN  IF m2.raised # "None" THEN m2 ELSE enterState(m2, args)

\* State.goto(state, *args) of the State instance self:
\* self.machine._goto(state, *args)
goto(m, self, name, args) ==
    _goto(Log(m, "goto", self.cls, self.id, <<name, args>>), name, args)

\* ----------------------------------------------- ClickOrDrag: the handlers

onPress == <<"o", "n", "P", "r", "e", "s", "s">>
onMove == <<"o", "n", "M", "o", "v", "e">>
onRelease == <<"o", "n", "R", "e", "l", "e", "a", "s", "e">>

\* (x - initPos[0]) ** 2 + (y - initPos[1]) ** 2
SquareDist(initPos, x, y) ==
    (x - initPos[1]) * (x - initPos[1]) + (y - initPos[2]) * (y - initPos[2])

\* A faulty variant of Idle.onPress: click buttons are looked at before drag buttons.
Idle_onPress_ClickFirst(m, self, x, y, btn) ==
    IF btn \in m.clickButtons
    THEN Return(goto(m, self, "click", <<x, y, btn>>), "True")
    ELSE IF btn \in m.dragButtons
         THEN Return(goto(m, self, "clickOrDrag", <<x, y, btn>>), "True")
         ELSE Return(m, "None")

\* ClickOrDrag.Idle.onPress(x, y, btn); falls off the end (None) for other buttons.
Idle_onPress(m, self, x, y, btn) ==
    IF btn \in m.dragButtons
    THEN Return(goto(m, self, "clickOrDrag", <<x, y, btn>>), "True")
    ELSE IF btn \in m.clickButtons
         THEN Return(goto(m, self, "click", <<x, y, btn>>), "True")
         ELSE Return(m, "None")

\* A faulty variant of Click.onMove: the threshold itself is not yet a drag distance.
Click_onMove_Strict(m, self, x, y) ==
    IF SquareDist(self.initPos, x, y) > DRAG_THRESHOLD_SQUARE_DIST
    THEN Return(goto(m, self, "idle", <<>>), "None")
    ELSE Return(m, "None")

\* ClickDragManager.Idle.onPress(x, y, btn): the clickers from the i-th on.
RECURSIVE AskClickers(_, _, _, _, _, _)
AskClickers(m, self, i, x, y, btn) ==
    IF i > Len(m.clickers)
    THEN Return(m, "False")
    ELSE IF btn = m.clickers[i]
         THEN LET m1 == ClickInteraction(m, "ClickInteraction.accept", i, <<x, y>>,
                                         Bool(i \in m.yes.clickers))
              IN  IF i \in m.yes.clickers
                  THEN Return(goto(m1, self, "click", <<x, y, btn>>), "True")
                  ELSE AskClickers(m1, self, i + 1, x, y, btn)
         ELSE AskClickers(m, self, i + 1, x, y, btn)

\* ClickDragManager.Idle.onPress(x, y, btn): the draggers from the i-th on,
\* then the clickers.
RECURSIVE AskDraggers(_, _, _, _, _, _)
AskDraggers(m, self, i, x, y, btn) ==
    IF i > Len(m.draggers)
    THEN AskClickers(m, self, 1, x, y, btn)
    ELSE IF btn = m.draggers[i]
         THEN LET m1 == DragInteraction(m, "DragInteraction.accept", i, <<x, y>>,
                                        Bool(i \in m.yes.draggers))
              IN  IF i \in m.yes.draggers
                  THEN Return(goto([m1 EXCEPT !.currentDragger = i], self,
                                   "clickOrDrag", <<x, y, btn>>), "True")
                  ELSE AskDraggers(m1, self, i + 1, x, y, btn)
         ELSE AskDraggers(m, self, i + 1, x, y, btn)

\* A faulty variant of ClickDragManager.Idle.onPress: the dragger that
\* accepts is not made the current dragger.
ClickDragManager_Idle_onPress_Forgetful(m, self, x, y, btn) ==
    [AskDraggers(m, self, 1, x, y, btn) EXCEPT !.currentDragger = m.currentDragger]

\* A faulty variant of ClickDragManager.Idle.onPress: a current dragger left
\* by an earlier gesture is kept.
ClickDragManager_Idle_onPress_Stale(m, self, x, y, btn) ==
    [AskDraggers(m, self, 1, x, y, btn)
        EXCEPT !.currentDragger = IF m.currentDragger # 0 THEN m.currentDragger ELSE @]

\* ClickDragManager.Idle.onPress(x, y, btn)
ClickDragManager_Idle_onPress(m, self, x, y, btn) ==
    AskDraggers(m, self, 1, x, y, btn)

\* ClickOrDrag.Click.onMove(x, y)
Click_onMove(m, self, x, y) ==
    IF SquareDist(self.initPos, x, y) >= DRAG_THRESHOLD_SQUARE_DIST
    THEN Return(goto(m, self, "idle", <<>>), "None")
    ELSE Return(m, "None")

\* A faulty variant of Click.onRelease: click gets the press position.
Click_onRelease_AtPress(m, self, x, y, btn) ==
    IF btn = self.button
    THEN Return(goto(click(m, self.initPos[1], self.initPos[2], btn), self, "idle", <<>>),
                "None")
    ELSE Return(m, "None")

\* ClickOrDrag.Click.onRelease(x, y, btn)
Click_onRelease(m, self, x, y, btn) ==
    IF btn = self.button
    THEN Return(goto(click(m, x, y, btn), self, "idle", <<>>), "None")
    ELSE Return(m, "None")

\* A faulty variant of ClickOrDrag.onMove: beginDrag gets the current position.
ClickOrDrag_onMove_CurPos(m, self, x, y) ==
    IF SquareDist(self.initPos, x, y) >= DRAG_THRESHOLD_SQUARE_DIST
    THEN LET m1 == beginDrag(m, x, y, self.button)
         IN  IF Truthy(m1.begin)
             THEN Return(goto(m1, self, "drag", <<self.initPos, <<x, y>>, self.button>>),
                         "True")
             ELSE Return(goto(m1, self, "idle", <<>>), "False")
    ELSE Return(m, "None")

\* ClickOrDrag.ClickOrDrag.onMove(x, y)
ClickOrDrag_onMove(m, self, x, y) ==
    IF SquareDist(self.initPos, x, y) >= DRAG_THRESHOLD_SQUARE_DIST
    THEN LET m1 == beginDrag(m, self.initPos[1], self.initPos[2], self.button)
         IN  IF m1.raised # "None"
             THEN m1
             ELSE IF Truthy(m1.begin)
                  THEN Return(goto(m1, self, "drag",
                                   <<self.initPos, <<x, y>>, self.button>>), "True")
                  ELSE Return(goto(m1, self, "idle", <<>>), "False")
    ELSE Return(m, "None")

\* A faulty variant of ClickOrDrag.onRelease: click is called for any button.
ClickOrDrag_onRelease_AnyClick(m, self, x, y, btn) ==
    IF btn = self.button
    THEN Return(goto(click(m, x, y, btn), self, "idle", <<>>), "None")
    ELSE Return(m, "None")

\* A faulty variant of ClickOrDrag.onRelease: only a click ends the state.
ClickOrDrag_onRelease_ClickOnly(m, self, x, y, btn) ==
    IF btn = self.button /\ btn \in m.clickButtons
    THEN Return(goto(click(m, x, y, btn), self, "idle", <<>>), "None")
    ELSE Return(m, "None")

\* ClickOrDrag.ClickOrDrag.onRelease(x, y, btn)
ClickOrDrag_onRelease(m, self, x, y, btn) ==
    IF btn = self.button
    THEN LET m1 == IF btn \in m.clickButtons THEN click(m, x, y, btn) ELSE m
         IN  Return(goto(m1, self, "idle", <<>>), "None")
    ELSE Return(m, "None")

\* ClickOrDrag.Drag.onMove(x, y)
Drag_onMove(m, self, x, y) == Return(drag(m, x, y, self.button), "None")

\* A faulty variant of Drag.onRelease: any button's release ends the drag.
Drag_onRelease_AnyButton(m, self, x, y, btn) ==
    Return(goto(endDrag(m, self.initPos, <<x, y>>, btn), self, "idle", <<>>), "None")

\* ClickOrDrag.Drag.onRelease(x, y, btn)
Drag_onRelease(m, self, x, y, btn) ==
    IF btn = self.button
    THEN Return(goto(endDrag(m, self.initPos, <<x, y>>, btn), self, "idle", <<>>), "None")
    ELSE Return(m, "None")

\* The classes of ClickOrDrag and the 'on...' methods each defines.
ClickOrDragMethods ==
    [c \in {"ClickOrDrag", "ClickOrDrag.Idle", "ClickOrDrag.Click",
            "ClickOrDrag.ClickOrDrag", "ClickOrDrag.Drag"} |->
        CASE c = "ClickOrDrag.Idle" -> {onPress}
          [] c = "ClickOrDrag" -> {}
          [] OTHER -> {onMove, onRelease}]

\* The states dict ClickOrDrag.__init__ builds.
ClickOrDragStates ==
    [n \in {"idle", "click", "clickOrDrag", "drag"} |->
        CASE n = "idle" -> "ClickOrDrag.Idle"
          [] n = "click" -> "ClickOrDrag.Click"
          [] n = "clickOrDrag" -> "ClickOrDrag.ClickOrDrag"
          [] n = "drag" -> "ClickOrDrag.Drag"]

\* self.Idle is the Idle class of the machine's class.
StatesOf(cls) ==
    IF cls = "ClickDragManager"
    THEN [ClickOrDragStates EXCEPT !["idle"] = "ClickDragManager.Idle"]
    ELSE ClickOrDragStates

\* ClickOrDrag.__init__(clickButtons, dragButtons)
ClickOrDrag_init(m, clickBtns, dragBtns) ==
    StateMachine_init([m EXCEPT !.states = StatesOf(m.cls),
                                !.clickButtons = clickBtns,
                                !.dragButtons = dragBtns],
                      "idle", <<>>)

\* The classes of ClickDragManager and the 'on...' methods each defines.
ClickDragManagerMethods ==
    [c \in DOMAIN ClickOrDragMethods \cup {"ClickDragManager", "ClickDragManager.Idle"} |->
        CASE c = "ClickDragManager.Idle" -> {onPress}
          [] c = "ClickDragManager" -> {}
          [] OTHER -> ClickOrDragMethods[c]]

\* The buttons of the handlers hs.
ButtonsOf(hs) == {hs[i] : i \in DOMAIN hs}

\* ClickDragManager.__init__(clickers, draggers)
ClickDragManager_init(m, cs, ds) ==
    ClickOrDrag_init([m EXCEPT !.clickers = cs, !.draggers = ds, !.currentDragger = 0],
                     ButtonsOf(cs), ButtonsOf(ds))

\* ------------------------------------- handlers of a user-defined machine

\* A handler written by the user of StateMachine: it makes the goto calls of
\* m.script, each <<state name, enter arguments>>, and returns m.ret; a goto
\* that raises ends it. A method of a State calls self.goto, a method of the
\* machine calls self.state.goto.
RECURSIVE RunScript(_, _, _, _)
RunScript(m, self, ofState, script) ==
    IF script = <<>> \/ m.raised # "None"
    THEN m
    ELSE RunScript(goto(m, IF ofState THEN self ELSE m.state,
                        Head(script)[1], Head(script)[2]),
                   self, ofState, Tail(script))

UserHandler(m, self, ofState, args) ==
    Return(RunScript(m, self, ofState, m.script), m.ret)

\* --------------------------------------------- StateMachine.handleEvent

\* The bound method getattr(obj, handlerName) gives, called with args.
CallHandler(m, cls, handlerName, args) ==
    LET self == m.state
        on == IF cls = m.cls THEN 0 ELSE self.id
        m1 == Log(m, "handler", cls, on, <<handlerName, args>>)
        r ==
            CASE cls = "ClickOrDrag.Idle" /\ handlerName = onPress ->
                     Idle_onPress(m1, self, args[1], args[2], args[3])
              [] cls = "ClickDragManager.Idle" /\ handlerName = onPress ->
                     ClickDragManager_Idle_onPress(m1, self, args[1], args[2], args[3])
              [] cls = "ClickOrDrag.Click" /\ handlerName = onMove ->
                     Click_onMove(m1, self, args[1], args[2])
              [] cls = "ClickOrDrag.Click" /\ handlerName = onRelease ->
                     Click_onRelease(m1, self, args[1], args[2], args[3])
              [] cls = "ClickOrDrag.ClickOrDrag" /\ handlerName = onMove ->
                     ClickOrDrag_onMove(m1, self, args[1], args[2])
              [] cls = "ClickOrDrag.ClickOrDrag" /\ handlerName = onRelease ->
                     ClickOrDrag_onRelease(m1, self, args[1], args[2], args[3])
              [] cls = "ClickOrDrag.Drag" /\ handlerName = onMove ->
                     Drag_onMove(m1, self, args[1], args[2])
              [] cls = "ClickOrDrag.Drag" /\ handlerName = onRelease ->
                     Drag_onRelease(m1, self, args[1], args[2], args[3])
              [] OTHER -> UserHandler(m1, self, cls # m.cls, args)
    IN  IF r.raised # "None" THEN r ELSE LogRet(r, "return", cls, on, <<>>, r.result)

\* A faulty variant of handleEvent: the machine's handler is preferred to the state's.
handleEvent_MachineFirst(m, eventName, args) ==
    LET handlerName == HandlerName(eventName)
    IN  IF handlerName \in m.methods[m.cls]
        THEN CallHandler(m, m.cls, handlerName, args)
        ELSE IF handlerName \in m.methods[m.state.cls]
             THEN CallHandler(m, m.state.cls, handlerName, args)
             ELSE m

\* StateMachine.handleEvent(eventName, *args): getattr on the state, then on
\* the machine; the handler's return value, or None without a handler.
handleEvent(m, eventName, args) ==
    LET handlerName == HandlerName(eventName)
    IN  IF handlerName \in m.methods[m.state.cls]
        THEN CallHandler(m, m.state.cls, handlerName, args)
        ELSE IF handlerName \in m.methods[m.cls]
             THEN CallHandler(m, m.cls, handlerName, args)
             ELSE m

\* ------------------------------------------------------------- the actions

\* What the environment decides during one API call: begin is the answer of
\* the beginDrag override, script and ret the behaviour of a user's handler.
BeginDragReturns == {"True", "False", "None"}

\* No clicker and no dragger returns True.
NoYes == [clickers |-> {}, draggers |-> {}]

\* The machine at the start of an API call.
Machine(begin, script, ret) ==
    [cls |-> machineCls, methods |-> methods, states |-> states, state |-> state,
     clickButtons |-> clickButtons, dragButtons |-> dragButtons,
     clickers |-> clickers, draggers |-> draggers, currentDragger |-> currentDragger,
     yes |-> NoYes, begin |-> begin, script |-> script, ret |-> ret,
     trace |-> <<>>, result |-> "None", raised |-> "None"]

\* The machine's fields and the call's outcome after the API call c gave r.
Store(r, c) ==
    /\ states' = r.states
    /\ state' = r.state
    /\ clickButtons' = r.clickButtons
    /\ dragButtons' = r.dragButtons
    /\ clickers' = r.clickers
    /\ draggers' = r.draggers
    /\ currentDragger' = r.currentDragger
    /\ call' = c
    /\ trace' = r.trace
    /\ result' = r.result
    /\ raised' = r.raised
    /\ UNCHANGED <<machineCls, methods>>

NoCall == [op |-> "None", args |-> <<>>]

Buttons == {LEFT_BTN, RIGHT_BTN}
Xs == {0, MaxX - 1, MaxX}
Ys == {0, MaxY}

press == <<"p", "r", "e", "s", "s">>
move == <<"m", "o", "v", "e">>
release == <<"r", "e", "l", "e", "a", "s", "e">>

\* ClickOrDrag(clickButtons, dragButtons)
NewClickOrDrag ==
    /\ pc = "new"
    /\ \E clickBtns \in SUBSET Buttons, dragBtns \in SUBSET Buttons :
          LET r == ClickOrDrag_init(Machine("None", <<>>, "None"),
                                    clickBtns, dragBtns)
          IN  /\ pc' = IF r.raised = "None" THEN "ready" ELSE "failed"
              /\ Store(r, [op |-> "ClickOrDrag", args |-> <<clickBtns, dragBtns>>])
    /\ UNCHANGED aside

\* The outcome of machine.handleEvent(eventName, *args), stored.
HandleEvent(eventName, args, begin, script, ret) ==
    Store(handleEvent(Machine(begin, script, ret), eventName, args),
          [op |-> "handleEvent", args |-> <<eventName, args>>])

\* machine.handleEvent('press', x, y, btn)
Press ==
    /\ pc = "ready"
    /\ pc' = pc
    /\ \E x \in Xs, y \in Ys, btn \in Buttons :
          HandleEvent(press, <<x, y, btn>>, "None", <<>>, "None")
    /\ UNCHANGED aside

\* machine.handleEvent('move', x, y); begin is what beginDrag answers if called
Move ==
    /\ pc = "ready"
    /\ pc' = pc
    /\ \E x \in Xs, y \in Ys, begin \in BeginDragReturns :
          HandleEvent(move, <<x, y>>, begin, <<>>, "None")
    /\ UNCHANGED aside

\* machine.handleEvent('release', x, y, btn)
Release ==
    /\ pc = "ready"
    /\ pc' = pc
    /\ \E x \in Xs, y \in Ys, btn \in Buttons :
          HandleEvent(release, <<x, y, btn>>, "None", <<>>, "None")
    /\ UNCHANGED aside

\* No press seen, no gesture in progress.
NoPress == <<>>
NoGesture ==
    [btn |-> "None", pos |-> <<>>, far |-> FALSE, calls |-> <<>>,
     begin |-> "None", over |-> FALSE]

NoneDeclined == [accept |-> {}, begin |-> 0, accepted |-> 0, begun |-> 0]

\* No array, no view.
NoArray == [shape |-> <<>>, data |-> <<>>]
NoView == [dataset |-> NoArray, transposition |-> <<>>]

\* No widget.
NoWidget ==
    [cls |-> "None", bottom |-> 0, top |-> 0, text |-> <<>>, label |-> <<>>,
     index |-> 0, minimum |-> 0, maximum |-> 0, value |-> 0,
     checked |-> FALSE, active |-> FALSE, step |-> 0]

AsideInit ==
    /\ widget = NoWidget
    /\ pending = [b \in Buttons |-> NoPress]
    /\ gesture = NoGesture
    /\ declined = NoneDeclined
    /\ view = NoView
    /\ reference = NoArray
    /\ transposed = 0

Init ==
    /\ pc = "new"
    /\ machineCls = "ClickOrDrag"
    /\ methods = ClickOrDragMethods
    /\ states = <<>>
    /\ state = NoState
    /\ clickButtons = {}
    /\ dragButtons = {}
    /\ clickers = <<>>
    /\ draggers = <<>>
    /\ currentDragger = 0
    /\ call = NoCall
    /\ trace = <<>>
    /\ result = "None"
    /\ raised = "None"
    /\ AsideInit

Next == NewClickOrDrag \/ Press \/ Move \/ Release

\* A ClickOrDrag machine fed press, move and release events.
Spec == Init /\ [][Next]_vars

\* ------------------------------------------- a user-defined state machine

\* A StateMachine subclass with two State subclasses; which 'on...' methods
\* each class defines, and which of the state names the states dict holds,
\* are free. A name the dict does not hold is an unknown state name.
UserStateClasses == {"UserState1", "UserState2"}
UserClasses == UserStateClasses \cup {"UserMachine"}
UserStateNames == {"s1", "s2"}
UserClassOf(name) == IF name = "s1" THEN "UserState1" ELSE "UserState2"

ping == <<"p", "i", "n", "g">>
Ping == <<"P", "i", "n", "g">>
top == <<"t", "o", "p">>
onPing == <<"o", "n", "P", "i", "n", "g">>
onTop == <<"o", "n", "T", "o", "p">>

UserEvents == {ping, Ping, top}
UserHandlerNames == {onPing, onTop}
UserArgs == {<<>>, <<7>>}
GotoArgs == {<<8>>}
UserReturns == {"None", "r1"}

\* The states dicts: some of the names, each with its State class.
UserTables ==
    {[n \in d |-> UserClassOf(n)] : d \in SUBSET UserStateNames \ {{}}}

\* What a handler can do: up to MaxGotos goto calls, each to a name of the
\* table or not, with arguments.
UserGotos == UserStateNames \X GotoArgs
UserScripts == UNION {[1..n -> UserGotos] : n \in 0..MaxGotos}

\* StateMachine(states, initState, *args)
NewStateMachine ==
    /\ pc = "new"
    /\ \E tbl \in UserTables, initState \in UserStateNames,
          args \in UserArgs :
          LET m == [Machine("None", <<>>, "None") EXCEPT !.states = tbl]
              r == StateMachine_init(m, initState, args)
          IN  /\ pc' = IF r.raised = "None" THEN "ready" ELSE "failed"
              /\ Store(r, [op |-> "StateMachine", args |-> <<tbl, initState, args>>])
    /\ UNCHANGED aside

\* machine.handleEvent(eventName, *args), the handlers behaving in any way
HandleUserEvent ==
    /\ pc = "ready"
    /\ pc' = pc
    /\ \E eventName \in UserEvents, args \in UserArgs,
          script \in UserScripts, ret \in UserReturns :
          HandleEvent(eventName, args, "None", script, ret)
    /\ UNCHANGED aside

InitSM ==
    /\ pc = "new"
    /\ machineCls = "UserMachine"
    /\ methods \in [UserClasses -> SUBSET UserHandlerNames]
    /\ states = <<>>
    /\ state = NoState
    /\ clickButtons = {}
    /\ dragButtons = {}
    /\ clickers = <<>>
    /\ draggers = <<>>
    /\ currentDragger = 0
    /\ call = NoCall
    /\ trace = <<>>
    /\ result = "None"
    /\ raised = "None"
    /\ AsideInit

NextSM == NewStateMachine \/ HandleUserEvent

\* Any StateMachine with any handlers, fed any events.
SpecSM == InitSM /\ [][NextSM]_vars

\* ------------------------------------- ClickOrDrag, with its gestures observed

\* The entries of a trace whose op is one of ops, in order.
Ops(t, ops) == SelectSeq(t, LAMBDA e : e.op \in ops)

Hooks == {"leaveState", "State.__init__", "enterState"}
Callbacks == {"click", "beginDrag", "drag", "endDrag"}

\* (x, y) is within the drag threshold of pos.
Within(pos, x, y) ==
    (x - pos[1]) * (x - pos[1]) + (y - pos[2]) * (y - pos[2]) < 25

\* pending[b] is the position of the last press of the click button b when
\* b was not released since and no move since went as far as the drag
\* threshold from it.
PendingPress(p, x, y, btn) ==
    IF btn \in clickButtons THEN [p EXCEPT ![btn] = <<x, y>>] ELSE p

PendingMove(p, x, y) ==
    [b \in Buttons |->
        IF p[b] # NoPress /\ ~Within(p[b], x, y) THEN NoPress ELSE p[b]]

PendingRelease(p, btn) == [p EXCEPT ![btn] = NoPress]

\* The callbacks cs in order after the callbacks seq, a run of drag calls
\* counted as one and what comes after four callbacks dropped.
RECURSIVE Fired(_, _)
Fired(seq, cs) ==
    IF cs = <<>> \/ Len(seq) >= 4
    THEN seq
    ELSE IF seq # <<>> /\ seq[Len(seq)] = "drag" /\ Head(cs).op = "drag"
         THEN Fired(seq, Tail(cs))
         ELSE Fired(Append(seq, Head(cs).op), Tail(cs))

\* What beginDrag answered, when the callbacks cs hold a beginDrag call.
Answered(begin, cs) ==
    LET b == Ops(cs, {"beginDrag"}) IN IF b = <<>> THEN begin ELSE b[1].ret

\* A gesture starts with a press of a click or drag button that comes while
\* the machine is in Idle, and is over with the release of that button; the
\* state after the release still shows it.
GestureOpen(g) == IF g.over THEN NoGesture ELSE g

GestureCalls(g, t) ==
    IF g.btn = "None"
    THEN g
    ELSE [g EXCEPT !.calls = Fired(g.calls, Ops(t, Callbacks)),
                   !.begin = Answered(g.begin, Ops(t, Callbacks))]

GesturePress(g, x, y, btn, wasIdle, t) ==
    IF wasIdle /\ btn \in clickButtons \cup dragButtons
    THEN GestureCalls([NoGesture EXCEPT !.btn = btn, !.pos = <<x, y>>], t)
    ELSE GestureCalls(GestureOpen(g), t)

GestureMove(g, x, y, t) ==
    LET o == GestureOpen(g)
    IN  IF o.btn = "None"
        THEN o
        ELSE GestureCalls([o EXCEPT !.far = o.far \/ ~Within(o.pos, x, y)], t)

GestureRelease(g, btn, t) ==
    LET o == GestureOpen(g)
    IN  IF o.btn = btn /\ btn # "None"
        THEN GestureCalls([o EXCEPT !.over = TRUE], t)
        ELSE GestureCalls(o, t)

\* The observed gestures start in one of two corners.
PressXs == {0, MaxX}
PressYs == {0}

\* machine.handleEvent('press', x, y, btn), observed
ObservedPress ==
    /\ pc = "ready"
    /\ pc' = pc
    /\ \E x \in PressXs, y \in PressYs, btn \in Buttons :
          /\ HandleEvent(press, <<x, y, btn>>, "None", <<>>, "None")
          /\ pending' = PendingPress(pending, x, y, btn)
          /\ UNCHANGED <<declined, view, reference, transposed, widget>>
          /\ gesture' = GesturePress(gesture, x, y, btn,
                                     state.cls = "ClickOrDrag.Idle", trace')

\* machine.handleEvent('move', x, y), observed
ObservedMove ==
    /\ pc = "ready"
    /\ pc' = pc
    /\ \E x \in Xs, y \in Ys, begin \in BeginDragReturns :
          /\ HandleEvent(move, <<x, y>>, begin, <<>>, "None")
          /\ pending' = PendingMove(pending, x, y)
          /\ UNCHANGED <<declined, view, reference, transposed, widget>>
          /\ gesture' = GestureMove(gesture, x, y, trace')

\* machine.handleEvent('release', x, y, btn), observed
ObservedRelease ==
    /\ pc = "ready"
    /\ pc' = pc
    /\ \E x \in Xs, y \in Ys, btn \in Buttons :
          /\ HandleEvent(release, <<x, y, btn>>, "None", <<>>, "None")
          /\ pending' = PendingRelease(pending, btn)
          /\ UNCHANGED <<declined, view, reference, transposed, widget>>
          /\ gesture' = GestureRelease(gesture, btn, trace')

NextGesture ==
    NewClickOrDrag \/ ObservedPress \/ ObservedMove \/ ObservedRelease

\* A ClickOrDrag machine fed press, move and release events, with the
\* presses and the callbacks of each gesture recorded.
SpecGesture == Init /\ [][NextGesture]_vars

\* ------------------------------------------------------- ClickDragManager

\* The clickers, and the draggers, a manager is made with: up to MaxHandlers
\* handlers, each with its button. Every loop over them skips the handlers
\* of another button than the event's, so the handlers of the left button
\* are listed first: only the order of handlers of one button is seen.
HandlerLists ==
    {hs \in UNION {[1..n -> Buttons] : n \in 0..MaxHandlers} :
        \A i, j \in DOMAIN hs : (i < j /\ hs[j] = LEFT_BTN) => hs[i] = LEFT_BTN}

\* The manager gets its presses at (0, 0), its moves and releases at a
\* point within the drag threshold of it or at one beyond.
ManagerPoints == {<<MaxX - 1, 0>>, <<MaxX, MaxY>>}

\* The handlers of the button btn among hs.
HandlersOf(hs, btn) == {i \in DOMAIN hs : hs[i] = btn}

\* The handlers that return True during one call for the button btn: any
\* of its handlers (the others are not meant to be asked: they say no).
YesSets(btn) ==
    {[clickers |-> c, draggers |-> d] :
        c \in SUBSET HandlersOf(clickers, btn), d \in SUBSET HandlersOf(draggers, btn)}

\* The entries of the trace t that are calls of method returning False.
SaidNo(t, method) ==
    {t[i].on : i \in {j \in DOMAIN t : t[j].op = method /\ t[j].ret = "False"}}

\* What the calls of the trace t make of h: h.accepted is the dragger whose
\* accept returned True and that was not asked to begin nor cancelled
\* since, h.begun the dragger whose begin returned True and that was not
\* ended nor cancelled since; h.ok tells that begin was only called on the
\* dragger that accepted, and drag and end only on the one that has begun.
RECURSIVE DraggerCalls(_, _)
DraggerCalls(h, t) ==
    IF t = <<>>
    THEN h
    ELSE LET e == Head(t)
             yes == e.ret = "True"
             h1 == IF e.cls # "DragInteraction"
                   THEN h
                   ELSE CASE e.op = "DragInteraction.accept" ->
                                 [h EXCEPT !.accepted = IF yes THEN e.on ELSE @]
                          [] e.op = "DragInteraction.begin" ->
                                 [h EXCEPT !.ok = @ /\ h.accepted = e.on,
                                           !.accepted = 0,
                                           !.begun = IF yes THEN e.on ELSE @]
                          [] e.op = "DragInteraction.drag" ->
                                 [h EXCEPT !.ok = @ /\ h.begun = e.on]
                          [] e.op = "DragInteraction.end" ->
                                 [h EXCEPT !.ok = @ /\ h.begun = e.on, !.begun = 0]
                          [] e.op = "DragInteraction.cancel" ->
                                 [h EXCEPT !.accepted = IF @ = e.on THEN 0 ELSE @,
                                           !.begun = IF @ = e.on THEN 0 ELSE @]
                          [] OTHER -> h
         IN  DraggerCalls(h1, Tail(t))

\* What the calls of t make of declined.accepted and declined.begun.
Dragging(d, t) ==
    DraggerCalls([accepted |-> d.accepted, begun |-> d.begun, ok |-> TRUE], t)

\* declined.accept: the clickers whose accept returned False at the press
\* that began the gesture in progress; declined.begin: the dragger whose
\* begin returned False since the last press handled in Idle.
DeclinedAtPress(d, wasIdle, t, st) ==
    IF wasIdle
    THEN [accept |-> IF st.cls = "ClickDragManager.Idle"
                     THEN {}
                     ELSE SaidNo(t, "ClickInteraction.accept"),
          begin |-> 0,
          accepted |-> Dragging(d, t).accepted,
          begun |-> Dragging(d, t).begun]
    ELSE [d EXCEPT !.accepted = Dragging(d, t).accepted, !.begun = Dragging(d, t).begun]

DeclinedAfter(d, t, st) ==
    [accept |-> IF st.cls = "ClickDragManager.Idle" THEN {} ELSE d.accept,
     begin |-> IF SaidNo(t, "DragInteraction.begin") # {}
               THEN CHOOSE i \in SaidNo(t, "DragInteraction.begin") : TRUE
               ELSE d.begin,
     accepted |-> Dragging(d, t).accepted,
     begun |-> Dragging(d, t).begun]

\* ClickDragManager(clickers, draggers)
NewClickDragManager ==
    /\ pc = "new"
    /\ \E cs \in HandlerLists, ds \in HandlerLists :
          LET r == ClickDragManager_init(Machine("None", <<>>, "None"), cs, ds)
          IN  /\ pc' = IF r.raised = "None" THEN "ready" ELSE "failed"
              /\ Store(r, [op |-> "ClickDragManager", args |-> <<cs, ds>>])
    /\ UNCHANGED aside

\* The outcome of manager.handleEvent(eventName, *args), stored.
ManagerHandleEvent(eventName, args, yes) ==
    Store(handleEvent([Machine("None", <<>>, "None") EXCEPT !.yes = yes],
                      eventName, args),
          [op |-> "handleEvent", args |-> <<eventName, args, yes>>])

\* manager.handleEvent('press', x, y, btn). Only Idle defines onPress: in
\* the other states no handler is asked, and no answer is drawn.
ManagerPress ==
    /\ pc = "ready"
    /\ pc' = pc
    /\ \E btn \in Buttons :
          \E yes \in YesSets(btn) :
              /\ state.cls # "ClickDragManager.Idle" => yes = NoYes
              /\ ManagerHandleEvent(press, <<0, 0, btn>>, yes)
    /\ declined' = DeclinedAtPress(declined, state.cls = "ClickDragManager.Idle",
                                   trace', state')
    /\ UNCHANGED <<gestureVars, view, reference, transposed, widget>>

\* manager.handleEvent('move', x, y)
ManagerMove ==
    /\ pc = "ready"
    /\ pc' = pc
    /\ \E pos \in ManagerPoints, begin \in BOOLEAN :
          ManagerHandleEvent(move, pos,
              [clickers |-> {}, draggers |-> IF begin THEN DOMAIN draggers ELSE {}])
    /\ declined' = DeclinedAfter(declined, trace', state')
    /\ UNCHANGED <<gestureVars, view, reference, transposed, widget>>

\* manager.handleEvent('release', x, y, btn). A release asks no dragger
\* for an answer, and in Idle and Drag it makes no click.
ManagerRelease ==
    /\ pc = "ready"
    /\ pc' = pc
    /\ \E pos \in ManagerPoints, btn \in Buttons :
          \E yes \in YesSets(btn) :
              /\ yes.draggers = {}
              /\ state.cls \in {"ClickDragManager.Idle", "ClickOrDrag.Drag"} => yes = NoYes
              /\ ManagerHandleEvent(release, <<pos[1], pos[2], btn>>, yes)
    /\ declined' = DeclinedAfter(declined, trace', state')
    /\ UNCHANGED <<gestureVars, view, reference, transposed, widget>>

\* manager.cancel()
Cancel ==
    /\ pc = "ready"
    /\ pc' = pc
    /\ Store(ClickDragManager_cancel(Machine("None", <<>>, "None")),
             [op |-> "cancel", args |-> <<>>])
    /\ declined' = DeclinedAfter(declined, trace', state')
    /\ UNCHANGED <<gestureVars, view, reference, transposed, widget>>

InitManager ==
    /\ pc = "new"
    /\ machineCls = "ClickDragManager"
    /\ methods = ClickDragManagerMethods
    /\ states = <<>>
    /\ state = NoState
    /\ clickButtons = {}
    /\ dragButtons = {}
    /\ clickers = <<>>
    /\ draggers = <<>>
    /\ currentDragger = 0
    /\ call = NoCall
    /\ trace = <<>>
    /\ result = "None"
    /\ raised = "None"
    /\ AsideInit

NextManager ==
    NewClickDragManager \/ ManagerPress \/ ManagerMove \/ ManagerRelease \/ Cancel

\* A ClickDragManager with any clickers and draggers, fed press, move and
\* release events and cancel calls.
SpecManager == InitManager /\ [][NextManager]_vars

\* ------------------------------------------- the lazy transposed array view

\* Axes and indices count from 0 as in Python; the k-th member of a Python
\* sequence s is s[k + 1].

\* The product of the members of a tuple of numbers.
RECURSIVE Product(_)
Product(t) == IF t = <<>> THEN 1 ELSE Head(t) * Product(Tail(t))

\* The index tuples of an array of this shape.
Indices(shape) ==
    {idx \in [DOMAIN shape -> 0..(MaxDim - 1)] : \A k \in DOMAIN shape : idx[k] < shape[k]}

\* Position of the element idx in the row-major buffer of an array of this shape.
RECURSIVE Offset(_, _)
Offset(shape, idx) ==
    IF shape = <<>>
    THEN 0
    ELSE Head(idx) * Product(Tail(shape)) + Offset(Tail(shape), Tail(idx))

\* numpy.arange(size).reshape(shape)
arange_reshape(shape) ==
    [shape |-> shape, data |-> [idx \in Indices(shape) |-> Offset(shape, idx)]]

\* itertools.permutations(range(n))
permutations(n) ==
    {t \in [1..n -> 0..(n - 1)] : \A i, j \in 1..n : t[i] = t[j] => i = j}

\* A faulty variant of rtrans: the axes rotated by one.
rtrans_Rotated(n) == [i \in 1..n |-> i % n]

\* list(reversed(range(ndim)))
rtrans(n) == [i \in 1..n |-> n - i]

\* list(reversed(t))
reversed(t) == [i \in DOMAIN t |-> t[Len(t) + 1 - i]]

\* The index in a with the member idx[k] on the axis axes[k], for every k.
Untransposed(axes, idx) ==
    [a \in DOMAIN axes |-> idx[CHOOSE k \in DOMAIN axes : axes[k] = a - 1]]

\* A faulty variant of numpy.transpose: axis axes[i] of the result is axis i
\* of a.
numpy_transpose_Inverse(a, axes) ==
    LET shape == Untransposed(axes, a.shape)
    IN  [shape |-> shape,
         data |-> [idx \in Indices(shape) |->
                     a.data[[i \in DOMAIN axes |-> idx[axes[i] + 1]]]]]

\* numpy.transpose(a, axes): axis i of the result is axis axes[i] of a.
numpy_transpose(a, axes) ==
    LET shape == [i \in DOMAIN axes |-> a.shape[axes[i] + 1]]
    IN  [shape |-> shape,
         data |-> [idx \in Indices(shape) |-> a.data[Untransposed(axes, idx)]]]

\* a.T of a numpy array: the axes reversed.
numpy_T(a) ==
    LET shape == reversed(a.shape)
    IN  [shape |-> shape, data |-> [idx \in Indices(shape) |-> a.data[reversed(idx)]]]

\* sorted(pairs) for pairs of distinct first members: by first member.
RECURSIVE sorted(_)
sorted(pairs) ==
    IF pairs = <<>>
    THEN <<>>
    ELSE LET i == CHOOSE i \in DOMAIN pairs :
                      \A j \in DOMAIN pairs : pairs[i][1] <= pairs[j][1]
         IN  <<pairs[i]>> \o sorted(SubSeq(pairs, 1, i - 1)
                                       \o SubSeq(pairs, i + 1, Len(pairs)))

\* zip(s, t)
zip(s, t) == [i \in DOMAIN s |-> <<s[i], t[i]>>]

\* A faulty variant of sorted_shape: the shape is left as it is.
sorted_shape_Unsorted(transposition, shape) == shape

\* tuple(dim_size for (_, dim_size) in sorted(zip(transposition, a.shape)))
sorted_shape(transposition, shape) ==
    LET pairs == sorted(zip(transposition, shape))
    IN  [i \in DOMAIN pairs |-> pairs[i][2]]

\* A faulty variant of sorted_indices: the indices are left as they are.
sorted_indices_Unsorted(transposition, indices) == indices

\* tuple(idx for (_, idx) in sorted(zip(transposition, indices)))
sorted_indices(transposition, indices) ==
    LET pairs == sorted(zip(transposition, indices))
    IN  [i \in DOMAIN pairs |-> pairs[i][2]]

\* A faulty variant of IsTransposition: only the length is looked at.
IsTransposition_LengthOnly(t, n) == Len(t) = n

\* A permutation of the axes of an array of n axes.
IsTransposition(t, n) ==
    /\ Len(t) = n
    /\ \A a \in 0..(n - 1) : \E k \in DOMAIN t : t[k] = a

\* DatasetView(dataset, transposition): the view keeps the dataset and the
\* permutation; a transposition that is no permutation of the axes is refused.
DatasetView(dataset, transposition) ==
    IF IsTransposition(transposition, Len(dataset.shape))
    THEN [dataset |-> dataset, transposition |-> transposition]
    ELSE NoView

\* view.ndim, view.size: those of the dataset.
DatasetView_ndim(v) == Len(v.dataset.shape)

DatasetView_size(v) == Product(v.dataset.shape)

\* view.shape: the dataset's shape reordered by the transposition.
DatasetView_shape(v) ==
    [i \in DOMAIN v.transposition |-> v.dataset.shape[v.transposition[i] + 1]]

\* view.transpose(transposition): a view of the same dataset whose
\* permutation, relative to the dataset, is the view's followed by the new
\* one; a transposition that is no permutation of the axes is refused.
DatasetView_transpose(v, transposition) ==
    IF IsTransposition(transposition, DatasetView_ndim(v))
    THEN DatasetView(v.dataset,
                     [i \in DOMAIN transposition |-> v.transposition[transposition[i] + 1]])
    ELSE NoView

\* view.T: the view with its axes in reverse order.
DatasetView_T(v) == DatasetView(v.dataset, reversed(v.transposition))

\* The inverse of a permutation.
Inverse(t) == [a \in DOMAIN t |-> (CHOOSE k \in DOMAIN t : t[k] = a - 1) - 1]

\* view[i0, ..., in-1]: the index is translated to the dataset's axes by
\* the inverse permutation, and the dataset is indexed with it.
DatasetView_getitem(v, idx) ==
    LET inverse == Inverse(v.transposition)
    IN  v.dataset.data[[a \in DOMAIN idx |-> idx[inverse[a] + 1]]]

\* numpy.array(view): the view's elements, as view[idx] gives them.
numpy_array(v) ==
    [shape |-> DatasetView_shape(v),
     data |-> [idx \in Indices(DatasetView_shape(v)) |-> DatasetView_getitem(v, idx)]]

\* numpy.array_equal(a, b)
array_equal(a, b) == a.shape = b.shape /\ a.data = b.data

\* The datasets of the model: every shape of up to MaxNdim axes of length
\* up to MaxDim, filled as the tests' VOLUME is.
Shapes == UNION {[1..n -> 1..MaxDim] : n \in 1..MaxNdim}

\* The state machines' variables: a view has none of them.
machineVars ==
    <<machineCls, methods, states, state, clickButtons, dragButtons,
      clickers, draggers, currentDragger, trace, raised, gestureVars, declined, widget>>

\* DatasetView(dataset, transposition=transposition)
NewDatasetView ==
    /\ pc = "new"
    /\ pc' = "ready"
    /\ \E shape \in Shapes :
          \E transposition \in permutations(Len(shape)) :
              /\ view' = DatasetView(arange_reshape(shape), transposition)
              /\ reference' = numpy_transpose(arange_reshape(shape), transposition)
              /\ call' = [op |-> "DatasetView", args |-> <<shape, transposition>>]
    /\ transposed' = 0
    /\ result' = 0
    /\ UNCHANGED machineVars

\* view = view.transpose(transposition)
Transpose ==
    /\ pc = "ready"
    /\ pc' = pc
    /\ transposed < MaxTransposes
    /\ \E transposition \in permutations(DatasetView_ndim(view)) :
          /\ view' = DatasetView_transpose(view, transposition)
          /\ reference' = numpy_transpose(reference, transposition)
          /\ call' = [op |-> "transpose", args |-> <<transposition>>]
    /\ transposed' = transposed + 1
    /\ result' = 0
    /\ UNCHANGED machineVars

\* view = view.T
TransposeT ==
    /\ pc = "ready"
    /\ pc' = pc
    /\ transposed < MaxTransposes
    /\ view' = DatasetView_T(view)
    /\ reference' = numpy_T(reference)
    /\ call' = [op |-> "T", args |-> <<>>]
    /\ transposed' = transposed + 1
    /\ result' = 0
    /\ UNCHANGED machineVars

\* view[i0, ..., in-1]
GetItem ==
    /\ pc = "ready"
    /\ pc' = pc
    /\ \E idx \in Indices(DatasetView_shape(view)) :
          /\ result' = DatasetView_getitem(view, idx)
          /\ call' = [op |-> "getitem", args |-> <<idx>>]
    /\ UNCHANGED <<view, reference, transposed>>
    /\ UNCHANGED machineVars

InitView ==
    /\ pc = "new"
    /\ machineCls = "None"
    /\ methods = <<>>
    /\ states = <<>>
    /\ state = NoState
    /\ clickButtons = {}
    /\ dragButtons = {}
    /\ clickers = <<>>
    /\ draggers = <<>>
    /\ currentDragger = 0
    /\ call = NoCall
    /\ trace = <<>>
    /\ result = 0
    /\ raised = "None"
    /\ AsideInit

NextView == NewDatasetView \/ Transpose \/ TransposeT \/ GetItem

\* A DatasetView of any dataset and transposition, transposed and indexed.
SpecView == InitView /\ [][NextView]_vars

\* ------------------------------------------- views asked with any transposition

\* What a caller may give as a transposition: any tuple of up to
\* MaxNdim + 1 numbers up to MaxNdim.
Transpositions == UNION {[1..n -> 0..MaxNdim] : n \in 0..(MaxNdim + 1)}

\* One dataset for each number of axes.
DatasetsOfEachNdim ==
    {arange_reshape([i \in 1..n |-> IF i < MaxDim THEN i ELSE MaxDim]) : n \in 1..MaxNdim}

\* What the call raised, for the view it made or NoView.
RaisedBy(v) == IF v.transposition = <<>> THEN "DimensionalityError" ELSE "None"

viewOnly ==
    <<machineCls, methods, states, state, clickButtons, dragButtons,
      clickers, draggers, currentDragger, trace, gestureVars, declined, reference, widget>>

\* DatasetView(dataset, transposition=transposition), whatever the transposition
CreateView ==
    /\ pc = "new"
    /\ \E dataset \in DatasetsOfEachNdim :
          \E transposition \in Transpositions :
              LET v == DatasetView(dataset, transposition)
              IN  /\ view' = v
                  /\ raised' = RaisedBy(v)
                  /\ pc' = IF RaisedBy(v) = "None" THEN "ready" ELSE "failed"
                  /\ call' = [op |-> "DatasetView", args |-> <<dataset.shape, transposition>>]
    /\ transposed' = 0
    /\ result' = 0
    /\ UNCHANGED viewOnly

\* view = view.transpose(transposition), whatever the transposition: the
\* caller keeps its view when the call raises.
TransposeView ==
    /\ pc = "ready"
    /\ pc' = pc
    /\ transposed < MaxTransposes
    /\ \E transposition \in Transpositions :
          LET v == DatasetView_transpose(view, transposition)
          IN  /\ raised' = RaisedBy(v)
              /\ view' = IF RaisedBy(v) = "None" THEN v ELSE view
              /\ call' = [op |-> "transpose", args |-> <<transposition>>]
    /\ transposed' = transposed + 1
    /\ result' = 0
    /\ UNCHANGED viewOnly

NextViewErrors == CreateView \/ TransposeView

\* A DatasetView created and transposed with valid and invalid transpositions.
SpecViewErrors == InitView /\ [][NextViewErrors]_vars

\* ------------------------------------------------- the view of a list of images

\* a[i] of a numpy array: the elements whose first index is i.
numpy_getitem(a, i) ==
    LET shape == Tail(a.shape)
    IN  [shape |-> shape, data |-> [idx \in Indices(shape) |-> a.data[<<i>> \o idx]]]

\* self.images: the images volume[i] of a volume filled by numpy.arange.
images_of(shape) ==
    [i \in 1..shape[1] |-> numpy_getitem(arange_reshape(shape), i - 1)]

\* A faulty variant of numpy.array(images): the last image comes first.
numpy_array_images_Reversed(images) ==
    LET shape == <<Len(images)>> \o images[1].shape
    IN  [shape |-> shape,
         data |-> [idx \in Indices(shape) |->
                     images[Len(images) - idx[1]].data[Tail(idx)]]]

\* numpy.array(images): the images stacked along a new first axis.
numpy_array_images(images) ==
    LET shape == <<Len(images)>> \o images[1].shape
    IN  [shape |-> shape,
         data |-> [idx \in Indices(shape) |-> images[idx[1] + 1].data[Tail(idx)]]]

\* ListOfImages(images, transposition): the view keeps the list and the
\* permutation of the axes (the first axis counts the images).
ListOfImages(images, transposition) ==
    IF IsTransposition(transposition, 1 + Len(images[1].shape))
    THEN [images |-> images, transposition |-> transposition]
    ELSE NoView

\* The shape of the images as if stacked.
ListOfImages_original_shape(v) == <<Len(v.images)>> \o v.images[1].shape

ListOfImages_ndim(v) == Len(ListOfImages_original_shape(v))

ListOfImages_size(v) == Len(v.images) * Product(v.images[1].shape)

ListOfImages_shape(v) ==
    [i \in DOMAIN v.transposition |-> ListOfImages_original_shape(v)[v.transposition[i] + 1]]

ListOfImages_transpose(v, transposition) ==
    ListOfImages(v.images,
                 [i \in DOMAIN transposition |-> v.transposition[transposition[i] + 1]])

ListOfImages_T(v) == ListOfImages(v.images, reversed(v.transposition))

\* view[i0, i1, i2]: the index is translated by the inverse permutation;
\* its first member selects the image, the others the pixel.
ListOfImages_getitem(v, idx) ==
    LET inverse == Inverse(v.transposition)
        s == [a \in DOMAIN idx |-> idx[inverse[a] + 1]]
    IN  v.images[s[1] + 1].data[Tail(s)]

\* view[i]: the dense array of the elements whose first index is i.
ListOfImages_getitem_int(v, i) ==
    LET shape == Tail(ListOfImages_shape(v))
    IN  [shape |-> shape,
         data |-> [idx \in Indices(shape) |-> ListOfImages_getitem(v, <<i>> \o idx)]]

\* view[i] of a DatasetView.
DatasetView_getitem_int(v, i) ==
    LET shape == Tail(DatasetView_shape(v))
    IN  [shape |-> shape,
         data |-> [idx \in Indices(shape) |-> DatasetView_getitem(v, <<i>> \o idx)]]

\* numpy.array(view) of a ListOfImages.
numpy_array_ListOfImages(v) ==
    [shape |-> ListOfImages_shape(v),
     data |-> [idx \in Indices(ListOfImages_shape(v)) |-> ListOfImages_getitem(v, idx)]]

\* The shapes of the volumes cut into images.
VolumeShapes == [1..MaxNdim -> 1..MaxDim]

\* ListOfImages(self.images, transposition=transposition)
NewListOfImages ==
    /\ pc = "new"
    /\ pc' = "ready"
    /\ \E shape \in VolumeShapes :
          \E transposition \in permutations(Len(shape)) :
              /\ view' = ListOfImages(images_of(shape), transposition)
              /\ reference' = numpy_transpose(numpy_array_images(images_of(shape)),
                                              transposition)
              /\ call' = [op |-> "ListOfImages", args |-> <<shape, transposition>>]
    /\ transposed' = 0
    /\ result' = 0
    /\ UNCHANGED machineVars

\* view = view.transpose(transposition)
TransposeImages ==
    /\ pc = "ready"
    /\ pc' = pc
    /\ transposed < MaxTransposes
    /\ \E transposition \in permutations(ListOfImages_ndim(view)) :
          /\ view' = ListOfImages_transpose(view, transposition)
          /\ reference' = numpy_transpose(reference, transposition)
          /\ call' = [op |-> "transpose", args |-> <<transposition>>]
    /\ transposed' = transposed + 1
    /\ result' = 0
    /\ UNCHANGED machineVars

\* view = view.T
TransposeImagesT ==
    /\ pc = "ready"
    /\ pc' = pc
    /\ transposed < MaxTransposes
    /\ view' = ListOfImages_T(view)
    /\ reference' = numpy_T(reference)
    /\ call' = [op |-> "T", args |-> <<>>]
    /\ transposed' = transposed + 1
    /\ result' = 0
    /\ UNCHANGED machineVars

\* view[i0, i1, i2]
GetItemImages ==
    /\ pc = "ready"
    /\ pc' = pc
    /\ \E idx \in Indices(ListOfImages_shape(view)) :
          /\ result' = ListOfImages_getitem(view, idx)
          /\ call' = [op |-> "getitem", args |-> <<idx>>]
    /\ UNCHANGED <<view, reference, transposed>>
    /\ UNCHANGED machineVars

\* view[i]
GetImage ==
    /\ pc = "ready"
    /\ pc' = pc
    /\ \E i \in 0..(ListOfImages_shape(view)[1] - 1) :
          /\ result' = ListOfImages_getitem_int(view, i)
          /\ call' = [op |-> "getitem_int", args |-> <<i>>]
    /\ UNCHANGED <<view, reference, transposed>>
    /\ UNCHANGED machineVars

NextImages ==
    NewListOfImages \/ TransposeImages \/ TransposeImagesT \/ GetItemImages \/ GetImage

\* A ListOfImages of the images of any volume, transposed and indexed.
SpecImages == InitView /\ [][NextImages]_vars

\* ------------------------------ FrameBrowser and HorizontalSliderWithBrowser

\* A widget is a record w: bottom and top are those of the line edit's
\* validator, text the line edit's text (<<>> when empty, <<v>> for "%d" % v),
\* label the label's text (format, numbers), index the FrameBrowser's
\* _index; minimum, maximum and value are the QSlider's, checked the play
\* button's, active the timer's, step the menu's step spin box.

RECURSIVE FrameBrowser_setValue(_, _)
RECURSIVE QSlider_setValue(_, _)

\* HorizontalSliderWithBrowser._browserSlot
_browserSlot(w, new) == QSlider_setValue(w, new)

\* FrameBrowser._textChangedSlot; sigIndexChanged reaches _browserSlot when
\* the browser is that of a HorizontalSliderWithBrowser.
_textChangedSlot(w) ==
    IF w.text = <<>>
    THEN [w EXCEPT !.text = <<w.index>>]
    ELSE LET new_value == w.text[1]
         IN  IF new_value = w.index
             THEN w
             ELSE LET w1 == [w EXCEPT !.index = new_value]
                  IN  IF w.cls = "HorizontalSliderWithBrowser"
                      THEN _browserSlot(w1, new_value)
                      ELSE w1

\* A faulty variant of FrameBrowser.setValue: the value is not clipped.
FrameBrowser_setValue_Unclipped(w, value) ==
    _textChangedSlot([w EXCEPT !.text = <<value>>])

\* FrameBrowser.setValue
FrameBrowser_setValue(w, value) ==
    LET clipped == IF value < w.bottom THEN w.bottom
                   ELSE IF value > w.top THEN w.top
                   ELSE value
    IN  _textChangedSlot([w EXCEPT !.text = <<clipped>>])

\* HorizontalSliderWithBrowser._sliderSlot
_sliderSlot(w, value) == FrameBrowser_setValue(w, value)

\* QSlider.setValue: the value is bounded to the slider's range, and
\* valueChanged, which reaches _sliderSlot, is emitted when it changed.
QSlider_setValue(w, value) ==
    LET bounded == IF value < w.minimum THEN w.minimum
                   ELSE IF value > w.maximum THEN w.maximum
                   ELSE value
    IN  IF bounded = w.value
        THEN w
        ELSE _sliderSlot([w EXCEPT !.value = bounded], bounded)

\* QSlider.setRange: the maximum is at least the minimum, and the value is
\* bounded again.
QSlider_setRange(w, min, max) ==
    LET w1 == [w EXCEPT !.minimum = min, !.maximum = IF max < min THEN min ELSE max]
    IN  QSlider_setValue(w1, w1.value)

\* FrameBrowser.__init__; n is <<>> for None.
FrameBrowser_init(w, n) ==
    LET first == IF n = <<>> THEN QSliderMinimum ELSE 0
        last == IF n = <<>> THEN QSliderMaximum ELSE n[1]
    IN  [w EXCEPT !.bottom = first, !.top = last, !.text = <<first>>,
                  !.label = <<"of %d", last>>, !.index = first]

\* FrameBrowser.getRange
FrameBrowser_getRange(w) == <<w.bottom, w.top>>

\* FrameBrowser.getValue
FrameBrowser_getValue(w) == w.index

\* FrameBrowser.setRange
FrameBrowser_setRange(w, first, last) ==
    LET newBottom == IF first < last THEN first ELSE last
        newTop == IF first < last THEN last ELSE first
        w1 == FrameBrowser_setValue([w EXCEPT !.top = newTop, !.bottom = newBottom],
                                    newBottom)
    IN  [w1 EXCEPT !.label = <<" limits: %d, %d ", newBottom, newTop>>]

\* FrameBrowser.setNFrames
FrameBrowser_setNFrames(w, nframes) ==
    LET newTop == nframes - 1
    IN  [FrameBrowser_setRange(w, 0, newTop) EXCEPT !.label = <<" of %d ", newTop>>]

_firstClicked(w) == FrameBrowser_setValue(w, FrameBrowser_getRange(w)[1])

_previousClicked(w) == FrameBrowser_setValue(w, FrameBrowser_getValue(w) - 1)

_nextClicked(w) == FrameBrowser_setValue(w, FrameBrowser_getValue(w) + 1)

_lastClicked(w) == FrameBrowser_setValue(w, FrameBrowser_getRange(w)[2])

\* The state machines' and views' variables: a widget has none of them.
widgetOnly ==
    <<machineCls, methods, states, state, clickButtons, dragButtons,
      clickers, draggers, currentDragger, trace, raised, gestureVars, declined,
      view, reference, transposed>>

\* One call on the widget.
WidgetCall(op, args, w) ==
    /\ pc = "ready"
    /\ pc' = pc
    /\ widget' = w
    /\ call' = [op |-> op, args |-> args]
    /\ result' = 0
    /\ UNCHANGED widgetOnly

\* FrameBrowser(n=n)
NewFrameBrowser ==
    /\ pc = "new"
    /\ pc' = "ready"
    /\ \E n \in {<<>>} \cup {<<k>> : k \in 1..MaxFrames} :
          /\ widget' = FrameBrowser_init([NoWidget EXCEPT !.cls = "FrameBrowser"], n)
          /\ call' = [op |-> "FrameBrowser", args |-> <<n>>]
    /\ result' = 0
    /\ UNCHANGED widgetOnly

SetNFrames ==
    /\ widget.cls = "FrameBrowser"
    /\ \E nframes \in 1..MaxFrames :
        WidgetCall("setNFrames", <<nframes>>, FrameBrowser_setNFrames(widget, nframes))

SetRange ==
    /\ widget.cls = "FrameBrowser"
    /\ \E first, last \in 0..MaxFrames :
        WidgetCall("setRange", <<first, last>>, FrameBrowser_setRange(widget, first, last))

SetValue ==
    /\ widget.cls = "FrameBrowser"
    /\ \E value \in (0 - 1)..(MaxFrames + 1) :
        WidgetCall("setValue", <<value>>, FrameBrowser_setValue(widget, value))

FirstClicked ==
    /\ widget.cls = "FrameBrowser"
    /\ WidgetCall("_firstClicked", <<>>, _firstClicked(widget))

PreviousClicked ==
    /\ widget.cls = "FrameBrowser"
    /\ WidgetCall("_previousClicked", <<>>, _previousClicked(widget))

NextClicked ==
    /\ widget.cls = "FrameBrowser"
    /\ WidgetCall("_nextClicked", <<>>, _nextClicked(widget))

LastClicked ==
    /\ widget.cls = "FrameBrowser"
    /\ WidgetCall("_lastClicked", <<>>, _lastClicked(widget))

\* A frame number the validator accepts is typed in the line edit, and
\* editingFinished calls _textChangedSlot.
EditingFinished ==
    \E typed \in 0..MaxFrames :
        /\ widget.cls = "FrameBrowser"
        /\ widget.bottom <= typed
        /\ typed <= widget.top
        /\ WidgetCall("_textChangedSlot", <<typed>>,
                      _textChangedSlot([widget EXCEPT !.text = <<typed>>]))

NextBrowser ==
    \/ NewFrameBrowser
    \/ SetNFrames
    \/ SetRange
    \/ SetValue
    \/ FirstClicked
    \/ PreviousClicked
    \/ NextClicked
    \/ LastClicked
    \/ EditingFinished

\* A FrameBrowser, constructed with any number of frames or none, and used.
SpecBrowser == InitView /\ [][NextBrowser]_vars

\* ------------------------------------------ HorizontalSliderWithBrowser, playing

\* HorizontalSliderWithBrowser.__init__: a QSlider and a FrameBrowser(self)
\* with their default range, the play button unchecked, the timer stopped,
\* the menu's step set to 1.
HorizontalSliderWithBrowser_init(w) ==
    [FrameBrowser_init(w, <<>>) EXCEPT
        !.minimum = QSliderMinimum, !.maximum = QSliderMaximum, !.value = QSliderMinimum,
        !.checked = FALSE, !.active = FALSE, !.step = SpinBoxMinimum]

\* HorizontalSliderWithBrowser.setRange
HorizontalSliderWithBrowser_setRange(w, first, last) ==
    FrameBrowser_setRange(QSlider_setRange(w, first, last), first, last)

\* A faulty variant of HorizontalSliderWithBrowser.setValue: the browser
\* takes the value as it is.
HorizontalSliderWithBrowser_setValue_Unclipped(w, value) ==
    FrameBrowser_setValue_Unclipped(QSlider_setValue(w, value), value)

\* HorizontalSliderWithBrowser.setValue
HorizontalSliderWithBrowser_setValue(w, value) ==
    FrameBrowser_setValue(QSlider_setValue(w, value), value)

\* HorizontalSliderWithBrowser.setPlayImageStep: the spin box bounds the value.
setPlayImageStep(w, value) ==
    [w EXCEPT !.step = IF value < SpinBoxMinimum THEN SpinBoxMinimum
                       ELSE IF value > SpinBoxMaximum THEN SpinBoxMaximum
                       ELSE value]

getPlayImageStep(w) == w.step

\* HorizontalSliderWithBrowser._playButtonToggled: timer.start() or stop()
_playButtonToggled(w, checked) == [w EXCEPT !.active = checked]

\* QToolButton.setChecked: toggled is emitted when the state changed.
setChecked(w, checked) ==
    IF w.checked = checked
    THEN w
    ELSE _playButtonToggled([w EXCEPT !.checked = checked], checked)

\* HorizontalSliderWithBrowser._updateState
_updateState(w) ==
    LET currentIndex == FrameBrowser_getValue(w)
    IN  IF currentIndex < FrameBrowser_getRange(w)[2]
        THEN HorizontalSliderWithBrowser_setValue(w, currentIndex + getPlayImageStep(w))
        ELSE setChecked(w, FALSE)

\* HorizontalSliderWithBrowser()
NewHorizontalSliderWithBrowser ==
    /\ pc = "new"
    /\ pc' = "ready"
    /\ widget' = HorizontalSliderWithBrowser_init(
                     [NoWidget EXCEPT !.cls = "HorizontalSliderWithBrowser"])
    /\ call' = [op |-> "HorizontalSliderWithBrowser", args |-> <<>>]
    /\ result' = 0
    /\ UNCHANGED widgetOnly

\* slider.setRange(first, last), while not playing
SliderSetRange ==
    /\ ~widget.active
    /\ \E first, last \in 0..MaxFrames :
          WidgetCall("setRange", <<first, last>>,
                     HorizontalSliderWithBrowser_setRange(widget, first, last))

\* slider.setValue(value), while not playing
SliderSetValue ==
    /\ ~widget.active
    /\ \E value \in 0..MaxFrames :
          WidgetCall("setValue", <<value>>,
                     HorizontalSliderWithBrowser_setValue(widget, value))

\* slider.setPlayImageStep(value), while not playing
SetPlayImageStep ==
    /\ ~widget.active
    /\ \E value \in 0..MaxStep :
          WidgetCall("setPlayImageStep", <<value>>, setPlayImageStep(widget, value))

\* The play button is pressed, when it is not: playing starts.
Play ==
    /\ ~widget.checked
    /\ WidgetCall("setChecked", <<TRUE>>, setChecked(widget, TRUE))

\* The timer times out.
Timeout ==
    /\ widget.active
    /\ WidgetCall("_updateState", <<>>, _updateState(widget))

NextPlaying ==
    \/ NewHorizontalSliderWithBrowser
    \/ SliderSetRange
    \/ SliderSetValue
    \/ SetPlayImageStep
    \/ Play
    \/ Timeout

\* A HorizontalSliderWithBrowser set up in any way, then playing with no
\* other input; the running timer times out again and again.
SpecPlaying == InitView /\ [][NextPlaying]_vars /\ WF_vars(Timeout)

\* ------------------------------------------------------------ properties

\* The goto calls of the trace whose state name is (known = TRUE) or is not
\* a key of the states dict.
GotoCalls(known) ==
    {i \in DOMAIN trace :
        trace[i].op = "goto" /\ ((trace[i].args[1] \in DOMAIN states) <=> known)}

\* C1: once constructed, the machine always has one active state: an instance
\* of a class of the states dict, bound to this machine; and every goto to a
\* known name makes a newly created instance, not the one that was active,
\* the active state.
C1_OneActiveStateReplacedOnGoto ==
    pc = "ready" =>
        /\ state.id \in ObjIds
        /\ state.machine = Self
        /\ \E n \in DOMAIN states : states[n] = state.cls
        /\ \A i \in GotoCalls(TRUE) :
              /\ i + 3 <= Len(trace)
              /\ trace[i + 2].op = "State.__init__"
              /\ trace[i + 2].on # trace[i].active
              /\ trace[i + 3].active = trace[i + 2].on
        /\ LET made == Ops(trace, {"State.__init__"})
           IN  /\ made # <<>> => state.id = made[Len(made)].on
               /\ (made = <<>> /\ trace # <<>>) => state.id = trace[1].active

\* C1 witness: a goto from a state to the same state name made a new instance.
C1_Witness ==
    /\ pc = "ready"
    /\ \E i \in GotoCalls(TRUE) :
          /\ trace[i + 1].cls = trace[i + 2].cls
          /\ trace[i + 2].on = state.id

\* C2: constructing a machine with an initial state name of the states dict
\* calls enterState exactly once, on the initial state and with the extra
\* arguments, calls no leaveState, and leaves that state active.
C2_ConstructionEntersInitialState ==
    (call.op = "StateMachine" /\ call.args[2] \in DOMAIN call.args[1]) =>
        /\ pc = "ready"
        /\ raised = "None"
        /\ states = call.args[1]
        /\ state.cls = call.args[1][call.args[2]]
        /\ state.machine = Self
        /\ Len(trace) = 2
        /\ trace[1].op = "State.__init__"
        /\ trace[2] = [op |-> "enterState", cls |-> state.cls, on |-> state.id,
                       args |-> call.args[3], ret |-> "None", active |-> state.id]

\* C2 witness: a machine constructed with an extra argument.
C2_Witness ==
    /\ call.op = "StateMachine"
    /\ pc = "ready"
    /\ call.args[3] = <<7>>
    /\ state.cls = "UserState2"

\* C3: every goto to a known name calls, in this order and once each,
\* leaveState() on the active state, the constructor of the class registered
\* under the name with this machine, and enterState(args) on the new
\* instance, the new instance being the active state while enterState runs;
\* a handled event makes no other leaveState or enterState call.
C3_GotoLeavesSelectsEnters ==
    call.op = "handleEvent" =>
        /\ \A i \in GotoCalls(TRUE) :
              /\ i + 3 <= Len(trace)
              /\ trace[i + 1].op = "leaveState"
              /\ trace[i + 1].on = trace[i].active
              /\ trace[i + 1].active = trace[i].active
              /\ trace[i + 1].args = <<>>
              /\ trace[i + 2].op = "State.__init__"
              /\ trace[i + 2].cls = states[trace[i].args[1]]
              /\ trace[i + 2].args = <<Self>>
              /\ trace[i + 3].op = "enterState"
              /\ trace[i + 3].cls = states[trace[i].args[1]]
              /\ trace[i + 3].on = trace[i + 2].on
              /\ trace[i + 3].args = trace[i].args[2]
              /\ trace[i + 3].active = trace[i + 2].on
        /\ Len(Ops(trace, {"enterState"})) = Cardinality(GotoCalls(TRUE))
        /\ Len(Ops(trace, {"State.__init__"})) = Cardinality(GotoCalls(TRUE))
        /\ Len(Ops(trace, {"leaveState"})) = Len(Ops(trace, {"goto"}))

\* C3 witness: a handler went from one state to another one.
C3_Witness ==
    /\ call.op = "handleEvent"
    /\ \E i \in GotoCalls(TRUE) :
          /\ trace[i + 1].cls = "UserState1"
          /\ trace[i + 3].cls = "UserState2"
          /\ trace[i + 3].args = <<8>>
          /\ state.cls = "UserState2"

\* C4: a state name that is no key of the states dict raises where it is
\* used: the constructor raises and no machine with an active state results;
\* goto raises, selects no state and nothing after it runs.
C4_UnknownStateNameRaises ==
    /\ (call.op = "StateMachine" /\ call.args[2] \notin DOMAIN call.args[1]) =>
          /\ pc = "failed"
          /\ raised = "KeyError"
          /\ state = NoState
          /\ trace = <<>>
    /\ call.op = "handleEvent" =>
          /\ \A i \in GotoCalls(FALSE) :
                /\ raised = "KeyError"
                /\ result = "None"
                /\ Len(trace) = i + 1
                /\ trace[i + 1].op = "leaveState"
                /\ state.id = trace[i].active
          /\ raised = "KeyError" => GotoCalls(FALSE) # {}

\* C4 witness: a handler of a constructed machine called goto with an unknown name.
C4_Witness ==
    /\ pc = "ready"
    /\ call.op = "handleEvent"
    /\ raised = "KeyError"
    /\ GotoCalls(FALSE) # {}

\* The handler name the events of the user-defined machine stand for.
ExpectedHandlerName(eventName) == IF eventName \in {ping, Ping} THEN onPing ELSE onTop

\* C5: handleEvent calls the handler 'on' + capitalised event name of the
\* current state if it has one, else the one of the machine if it has one,
\* exactly once, with the arguments, and returns what the handler returned;
\* with no handler it returns None, raises nothing, calls nothing and keeps
\* the active state.
C5_Step ==
    call'.op = "handleEvent" =>
        LET name == ExpectedHandlerName(call'.args[1])
            owner == IF name \in methods[state.cls] THEN state.cls
                     ELSE IF name \in methods[machineCls] THEN machineCls
                     ELSE "None"
            called == Ops(trace', {"handler"})
            returned == Ops(trace', {"return"})
        IN  IF owner = "None"
            THEN /\ trace' = <<>>
                 /\ result' = "None"
                 /\ raised' = "None"
                 /\ state' = state
            ELSE /\ Len(called) = 1
                 /\ trace'[1] = called[1]
                 /\ called[1].cls = owner
                 /\ called[1].on = (IF owner = machineCls THEN 0 ELSE state.id)
                 /\ called[1].active = state.id
                 /\ called[1].args = <<name, call'.args[2]>>
                 /\ raised' = "None" =>
                       /\ Len(returned) = 1
                       /\ trace'[Len(trace')] = returned[1]
                       /\ result' = returned[1].ret

C5_HandleEventDispatch == [][C5_Step]_vars

\* C5 witness: the state had no handler for the event and the machine's
\* handler ran and returned a value.
C5_Witness ==
    /\ call.op = "handleEvent"
    /\ call.args[1] = Ping
    /\ trace # <<>>
    /\ trace[1].op = "handler"
    /\ trace[1].on = 0
    /\ result = "r1"

\* ------------------------------------------------ properties of ClickOrDrag

\* The step is machine.handleEvent(eventName, ...) on a machine whose active
\* state is an instance of cls.
Handles(cls, eventName) ==
    /\ state.cls = cls
    /\ call'.op = "handleEvent"
    /\ call'.args[1] = eventName

\* The event's arguments.
EventX == call'.args[2][1]
EventY == call'.args[2][2]
EventBtn == call'.args[2][3]

\* Squared distance of the event's position from the stored press position.
EventSquareDist ==
    (EventX - state.initPos[1]) * (EventX - state.initPos[1])
        + (EventY - state.initPos[2]) * (EventY - state.initPos[2])

\* The step called one goto: the active state was left and a new instance of
\* cls entered with args, which is the active state now.
WentTo(cls, args) ==
    LET entered == Ops(trace', {"enterState"})
    IN  /\ Len(Ops(trace', {"goto"})) = 1
        /\ Len(Ops(trace', {"leaveState"})) = 1
        /\ Ops(trace', {"leaveState"})[1].on = state.id
        /\ Len(entered) = 1
        /\ entered[1].cls = cls
        /\ entered[1].args = args
        /\ entered[1].on = state'.id
        /\ state'.cls = cls
        /\ state'.id # state.id

\* The step left the machine as it was: no goto, no callback.
Ignored ==
    /\ state' = state
    /\ Ops(trace', Hooks \cup Callbacks \cup {"goto"}) = <<>>

\* The callbacks the step made are exactly one: op(args), on the machine.
OnlyCallback(op, args) ==
    LET made == Ops(trace', Callbacks)
    IN  /\ Len(made) = 1
        /\ made[1].op = op
        /\ made[1].args = args
        /\ made[1].cls = machineCls

\* Index of the first entry of the trace with this op (0: none).
First(t, op) ==
    IF \E i \in DOMAIN t : t[i].op = op
    THEN CHOOSE i \in DOMAIN t : t[i].op = op /\ \A j \in 1..(i - 1) : t[j].op # op
    ELSE 0

\* C6: in Idle, press(x, y, btn) goes to ClickOrDrag with (x, y, btn) when
\* btn is a drag button (also when it is a click button too), else to Click
\* with (x, y, btn) when btn is a click button, else is ignored; no callback
\* is made.
C6_Step ==
    Handles("ClickOrDrag.Idle", press) =>
        /\ Ops(trace', Callbacks) = <<>>
        /\ IF EventBtn \in dragButtons
           THEN /\ WentTo("ClickOrDrag.ClickOrDrag", call'.args[2])
                /\ state'.initPos = <<EventX, EventY>>
                /\ state'.button = EventBtn
           ELSE IF EventBtn \in clickButtons
                THEN /\ WentTo("ClickOrDrag.Click", call'.args[2])
                     /\ state'.initPos = <<EventX, EventY>>
                     /\ state'.button = EventBtn
                ELSE Ignored

C6_IdlePress == [][C6_Step]_vars

\* C6 witness: a press of a button that is a click and a drag button is in
\* the ClickOrDrag state.
C6_Witness ==
    /\ call.op = "handleEvent"
    /\ call.args[1] = press
    /\ call.args[2][3] \in clickButtons \cap dragButtons
    /\ state.cls = "ClickOrDrag.ClickOrDrag"
    /\ state.button = call.args[2][3]

\* C7: in Click, a move at squared distance >= 25 of the press position goes
\* to Idle without a click, a move nearer changes nothing, and a release of
\* the stored button calls click(x, y, btn) once, with the release position,
\* and then goes to Idle.
C7_Step ==
    /\ Handles("ClickOrDrag.Click", move) =>
          IF EventSquareDist >= 25
          THEN WentTo("ClickOrDrag.Idle", <<>>) /\ Ops(trace', Callbacks) = <<>>
          ELSE Ignored
    /\ (Handles("ClickOrDrag.Click", release) /\ EventBtn = state.button) =>
          /\ OnlyCallback("click", <<EventX, EventY, EventBtn>>)
          /\ WentTo("ClickOrDrag.Idle", <<>>)
          /\ First(trace', "click") < First(trace', "goto")

C7_ClickState == [][C7_Step]_vars

\* C7 witness: a click has been made by the release that ended a Click state,
\* away from where the button was pressed.
C7_Witness ==
    /\ call.op = "handleEvent"
    /\ call.args[1] = release
    /\ state.cls = "ClickOrDrag.Idle"
    /\ \E i \in DOMAIN trace : trace[i].op = "click" /\ trace[i].args[1] # 0
    /\ \E i \in DOMAIN trace :
          trace[i].op = "leaveState" /\ trace[i].cls = "ClickOrDrag.Click"

\* C8: in ClickOrDrag, a move at squared distance >= 25 calls beginDrag once,
\* with the press position and the stored button; if it returns true the
\* machine goes to Drag with (press position, current position, button), else
\* to Idle with no drag and no endDrag; a move nearer calls nothing and keeps
\* the state.
C8_Step ==
    Handles("ClickOrDrag.ClickOrDrag", move) =>
        IF EventSquareDist >= 25
        THEN LET made == Ops(trace', Callbacks)
             IN  /\ made # <<>>
                 /\ made[1].op = "beginDrag"
                 /\ made[1].args = <<state.initPos[1], state.initPos[2], state.button>>
                 /\ made[1].active = state.id
                 /\ Len(Ops(trace', {"beginDrag"})) = 1
                 /\ First(trace', "beginDrag") < First(trace', "goto")
                 /\ IF made[1].ret = "True"
                    THEN /\ WentTo("ClickOrDrag.Drag",
                                   <<state.initPos, <<EventX, EventY>>, state.button>>)
                         /\ state'.initPos = state.initPos
                         /\ state'.button = state.button
                    ELSE /\ WentTo("ClickOrDrag.Idle", <<>>)
                         /\ Len(made) = 1
        ELSE Ignored

C8_ClickOrDragMove == [][C8_Step]_vars

\* C8 witness: beginDrag accepted a drag that began away from the origin and
\* the machine is in Drag.
C8_Witness ==
    /\ state.cls = "ClickOrDrag.Drag"
    /\ state.initPos # <<0, 0>>
    /\ \E i \in DOMAIN trace : trace[i].op = "beginDrag" /\ trace[i].ret = "True"

\* The callbacks of the step include a click.
Clicked == Ops(trace', {"click"}) # <<>>

\* C9 as stated: on release in ClickOrDrag, click is called iff btn is the
\* stored button and a click button, and the machine goes to Idle whatever
\* btn is.
C9_Original_Step ==
    Handles("ClickOrDrag.ClickOrDrag", release) =>
        /\ Clicked <=> (EventBtn = state.button /\ EventBtn \in clickButtons)
        /\ state'.cls = "ClickOrDrag.Idle"

C9_Original == [][C9_Original_Step]_vars

\* C9 amended: on release in ClickOrDrag, click(x, y, btn) is called, once,
\* iff btn is the stored button and a click button; the machine goes to Idle
\* when btn is the stored button, a click button or not, and the release of
\* another button is ignored.
C9_Step ==
    Handles("ClickOrDrag.ClickOrDrag", release) =>
        IF EventBtn = state.button
        THEN /\ WentTo("ClickOrDrag.Idle", <<>>)
             /\ IF EventBtn \in clickButtons
                THEN /\ OnlyCallback("click", <<EventX, EventY, EventBtn>>)
                     /\ First(trace', "click") < First(trace', "goto")
                ELSE Ops(trace', Callbacks) = <<>>
        ELSE Ignored

C9_ClickOrDragRelease == [][C9_Step]_vars

\* C9 witness: a button other than the stored one was released in
\* ClickOrDrag, and the machine is in ClickOrDrag still.
C9_Witness ==
    /\ call.op = "handleEvent"
    /\ call.args[1] = release
    /\ state.cls = "ClickOrDrag.ClickOrDrag"
    /\ call.args[2][3] # state.button
    /\ call.args[2][3] \in clickButtons

\* C10: entering Drag calls drag once, at once, with the current position
\* and the button; a move in Drag calls drag(x, y, stored button) once; a
\* release of the stored button calls endDrag(press position, (x, y), btn)
\* once and then goes to Idle.
C10_Step ==
    /\ (call'.op = "handleEvent" /\ state'.cls = "ClickOrDrag.Drag"
            /\ state.cls # "ClickOrDrag.Drag") =>
          LET i == First(trace', "enterState")
          IN  /\ i > 0
              /\ i < Len(trace')
              /\ trace'[i + 1].op = "drag"
              /\ trace'[i + 1].args = <<EventX, EventY, state'.button>>
              /\ trace'[i + 1].active = state'.id
              /\ Len(Ops(trace', {"drag"})) = 1
              /\ state'.button = state.button
    /\ Handles("ClickOrDrag.Drag", move) =>
          /\ OnlyCallback("drag", <<EventX, EventY, state.button>>)
          /\ state' = state
    /\ (Handles("ClickOrDrag.Drag", release) /\ EventBtn = state.button) =>
          /\ OnlyCallback("endDrag", <<state.initPos, <<EventX, EventY>>, EventBtn>>)
          /\ WentTo("ClickOrDrag.Idle", <<>>)
          /\ First(trace', "endDrag") < First(trace', "goto")

C10_DragState == [][C10_Step]_vars

\* C10 witness: a drag ended away from where it began.
C10_Witness ==
    /\ state.cls = "ClickOrDrag.Idle"
    /\ \E i \in DOMAIN trace :
          trace[i].op = "endDrag" /\ trace[i].args[1] # trace[i].args[2]

\* The step handles the release of the button of the gesture in progress,
\* a click button, and no move of the gesture reached the drag threshold.
ClickGestureEnds ==
    /\ Handles(state.cls, release)
    /\ ~gesture.over
    /\ gesture.btn = EventBtn
    /\ gesture.btn \in clickButtons
    /\ ~gesture.far

\* C11 as stated: whenever a click button is released after a press of it,
\* every move in between having stayed within the drag threshold of that
\* press, the release fires click exactly once, with its coordinates, and
\* no drag callback.
C11_Original_Step ==
    (call'.op = "handleEvent" /\ call'.args[1] = release
        /\ pending[EventBtn] # NoPress) =>
            OnlyCallback("click", <<EventX, EventY, EventBtn>>)

C11_Original == [][C11_Original_Step]_vars

\* C11: a press of a click button received in Idle, then moves that all stay
\* within the drag threshold of it, then the release of that button: the
\* release fires click once, with the release coordinates, the only callback
\* since the press; and click is fired by such a release only.
C11_Step ==
    /\ ClickGestureEnds =>
          /\ OnlyCallback("click", <<EventX, EventY, EventBtn>>)
          /\ gesture'.over
          /\ gesture'.calls = <<"click">>
    /\ (call'.op = "handleEvent" /\ Ops(trace', {"click"}) # <<>>) =>
          /\ call'.args[1] = release
          /\ ClickGestureEnds

C11_ClickGesture == [][C11_Step]_vars

\* C11 witness: a click and drag button, pressed in Idle and released
\* elsewhere within the threshold, has fired its click.
C11_Witness ==
    /\ gesture.over
    /\ gesture.btn \in clickButtons \cap dragButtons
    /\ gesture.calls = <<"click">>
    /\ call.args[1] = release
    /\ <<call.args[2][1], call.args[2][2]>> # gesture.pos

\* The gesture is one of a drag button in which a move reached the threshold.
DragGesture == gesture.btn \in dragButtons /\ gesture.far

\* The last callback of the call handled last.
LastCallback == Ops(trace, Callbacks)[Len(Ops(trace, Callbacks))]

\* C12 as stated: a gesture of a drag button in which a move went beyond the
\* threshold has fired, when its button is released, beginDrag, then drag
\* once or more, then endDrag once, and no click.
C12_Original ==
    (DragGesture /\ gesture.over) =>
        gesture.calls = <<"beginDrag", "drag", "endDrag">>

\* C12: a gesture that began with a press of a drag button received in Idle
\* and in which a move reached the threshold has fired beginDrag; when
\* beginDrag answered true, drag once or more after it and, from the release
\* of the button on, one endDrag(press position, release position, button)
\* after them; when it did not, no drag and no endDrag; and never click.
C12_DragGesture ==
    DragGesture =>
        IF ~Truthy(gesture.begin)
        THEN gesture.calls = <<"beginDrag">>
        ELSE IF ~gesture.over
             THEN gesture.calls = <<"beginDrag", "drag">>
             ELSE /\ gesture.calls = <<"beginDrag", "drag", "endDrag">>
                  /\ LastCallback.op = "endDrag"
                  /\ LastCallback.args =
                        <<gesture.pos, <<call.args[2][1], call.args[2][2]>>, gesture.btn>>
                  /\ Len(Ops(trace, Callbacks)) = 1

\* C12 witness: a drag gesture that is over, ended away from its press.
C12_Witness ==
    /\ DragGesture
    /\ gesture.over
    /\ Truthy(gesture.begin)
    /\ call.args[2][1] # gesture.pos[1]

\* The members of a set of integers, smallest first.
Ascending(S) ==
    CHOOSE seq \in [1..Cardinality(S) -> S] :
        \A i, j \in 1..Cardinality(S) : i < j => seq[i] < seq[j]

\* The handlers that method was called on, in the order of the calls.
Asked(t, method) ==
    [i \in 1..Len(Ops(t, {method})) |-> Ops(t, {method})[i].on]

\* The handlers the press asked all got accept(x, y), draggers before
\* clickers.
AcceptCalls ==
    /\ \A i \in DOMAIN trace' :
          trace'[i].op \in {"DragInteraction.accept", "ClickInteraction.accept"} =>
              trace'[i].args = <<EventX, EventY>>
    /\ \A i, j \in DOMAIN trace' :
          (trace'[i].op = "DragInteraction.accept"
              /\ trace'[j].op = "ClickInteraction.accept") => i < j

\* C13: a press(x, y, btn) handled in the Idle state of a ClickDragManager
\* asks the draggers of btn in registration order; the first that accepts
\* becomes the current dragger and the machine goes to ClickOrDrag, no other
\* handler being asked. When no dragger of btn accepts, the clickers of btn
\* are asked in registration order; the first that accepts sends the machine
\* to Click. When none accepts, the press returns False, Idle stays the
\* active state and the press sets no dragger.
C13_Step ==
    Handles("ClickDragManager.Idle", press) =>
        LET yes == call'.args[3]
            ds == HandlersOf(draggers, EventBtn)
            cs == HandlersOf(clickers, EventBtn)
            d1 == Ascending(ds \cap yes.draggers)[1]
            c1 == Ascending(cs \cap yes.clickers)[1]
        IN  /\ AcceptCalls
            /\ IF ds \cap yes.draggers # {}
               THEN /\ Asked(trace', "DragInteraction.accept")
                         = Ascending({i \in ds : i <= d1})
                    /\ Asked(trace', "ClickInteraction.accept") = <<>>
                    /\ currentDragger' = d1
                    /\ WentTo("ClickOrDrag.ClickOrDrag", <<EventX, EventY, EventBtn>>)
                    /\ result' = "True"
               ELSE /\ Asked(trace', "DragInteraction.accept") = Ascending(ds)
                    /\ currentDragger' = currentDragger
                    /\ IF cs \cap yes.clickers # {}
                       THEN /\ Asked(trace', "ClickInteraction.accept")
                                 = Ascending({i \in cs : i <= c1})
                            /\ WentTo("ClickOrDrag.Click", <<EventX, EventY, EventBtn>>)
                            /\ result' = "True"
                       ELSE /\ Asked(trace', "ClickInteraction.accept") = Ascending(cs)
                            /\ state' = state
                            /\ Ops(trace', Hooks \cup {"goto"}) = <<>>
                            /\ result' = "False"

C13_ManagerIdlePress == [][C13_Step]_vars

\* C13 witness: the second dragger of the button became the current dragger,
\* the first having declined and a clicker of the button being ready to accept.
C13_Witness ==
    /\ call.op = "handleEvent"
    /\ call.args[1] = press
    /\ state.cls = "ClickOrDrag.ClickOrDrag"
    /\ currentDragger = 2
    /\ Asked(trace, "DragInteraction.accept") = <<1, 2>>
    /\ call.args[3].clickers # {}

\* The calls of the trace t made on the dragger i.
OnDragger(t, i) == SelectSeq(t, LAMBDA e : e.cls = "DragInteraction" /\ e.on = i)

\* C14: a move of a ClickDragManager in ClickOrDrag that reaches the drag
\* threshold calls begin(x, y) of the current dragger once, with the press
\* position. When begin returns true the drag starts and goes to this
\* dragger; when it returns false the manager has no current dragger any
\* more, is back in Idle, and the dragger gets no drag, end or cancel call
\* then nor from any later move, release or cancel of the gesture.
C14_Step ==
    /\ (Handles("ClickOrDrag.ClickOrDrag", move) /\ machineCls = "ClickDragManager"
            /\ EventSquareDist >= 25 /\ currentDragger # 0) =>
          LET made == OnDragger(trace', currentDragger)
          IN  /\ Len(Ops(trace', {"beginDrag"})) = 1
              /\ made # <<>>
              /\ made[1].op = "DragInteraction.begin"
              /\ made[1].args = state.initPos
              /\ Len(Ops(trace', {"DragInteraction.begin"})) = 1
              /\ IF currentDragger \in call'.args[3].draggers
                 THEN /\ currentDragger' = currentDragger
                      /\ WentTo("ClickOrDrag.Drag",
                                <<state.initPos, <<EventX, EventY>>, state.button>>)
                      /\ Len(made) = 2
                      /\ made[2].op = "DragInteraction.drag"
                      /\ made[2].args = <<EventX, EventY>>
                 ELSE /\ currentDragger' = 0
                      /\ WentTo("ClickDragManager.Idle", <<>>)
                      /\ Len(made) = 1
                      /\ declined'.begin = currentDragger
    /\ (declined.begin # 0 /\ ~(call'.op = "handleEvent" /\ call'.args[1] = press)) =>
          /\ OnDragger(trace', declined.begin) = <<>>
          /\ currentDragger' = 0
          /\ state'.cls = "ClickDragManager.Idle"

C14_ManagerBeginDrag == [][C14_Step]_vars

\* C14 witness: cancel() is called in the gesture of a dragger whose begin
\* returned False.
C14_Witness ==
    /\ declined.begin # 0
    /\ call.op = "cancel"

\* C15 as stated: cancel() called while the manager is in Drag with a
\* current dragger calls that dragger's cancel once and leaves no current
\* dragger; and the press that follows is handled as a press in Idle is: by
\* Idle's onPress, which asks the handlers of the button to accept it.
C15_Original_Step ==
    /\ (call'.op = "cancel" /\ state.cls = "ClickOrDrag.Drag" /\ currentDragger # 0) =>
          /\ Len(trace') = 1
          /\ trace'[1].op = "DragInteraction.cancel"
          /\ trace'[1].on = currentDragger
          /\ currentDragger' = 0
    /\ (call.op = "cancel" /\ Ops(trace, {"DragInteraction.cancel"}) # <<>>
            /\ state.cls = "ClickOrDrag.Drag"
            /\ call'.op = "handleEvent" /\ call'.args[1] = press) =>
          /\ Ops(trace', {"handler"}) # <<>>
          /\ Ops(trace', {"handler"})[1].cls = "ClickDragManager.Idle"
          /\ Asked(trace', "DragInteraction.accept") # <<>>

C15_Original == [][C15_Original_Step]_vars

\* C16 as stated: click(x, y) is not called on a clicker whose accept
\* returned False at the press that began the gesture.
C16_Original_Step ==
    \A i \in DOMAIN trace' :
        trace'[i].op = "ClickInteraction.click" => trace'[i].on \notin declined.accept

C16_Original == [][C16_Original_Step]_vars

\* The view under test exists.
Viewing == view.transposition # <<>>

\* The lengths of the dataset's axes are found among those of the view.
checkVolumeSize ==
    /\ DatasetView_ndim(view) = Len(reference.shape)
    /\ DatasetView_size(view) = Product(reference.shape)
    /\ Product(DatasetView_shape(view)) = DatasetView_size(view)
    /\ \A k \in DOMAIN view.dataset.shape :
          \E i \in DOMAIN view.transposition :
              DatasetView_shape(view)[i] = view.dataset.shape[k]

Composed(p1, p2) == [i \in DOMAIN p2 |-> p1[p2[i] + 1]]

StackedView == DatasetView(numpy_array_images(view.images), view.transposition)

Given == IF call'.op = "DatasetView" THEN call'.args[2] ELSE call'.args[1]

\* The number of axes of the storage of the call made in this step.
GivenNdim ==
    IF call'.op = "DatasetView" THEN Len(call'.args[1]) ELSE Len(view.dataset.shape)

C22_Step ==
    /\ Viewing' => view'.transposition \in permutations(Len(view'.dataset.shape))
    /\ (call'.op \in {"DatasetView", "transpose"} /\ Given \notin permutations(GivenNdim)) =>
          /\ raised' # "None"
          /\ view' = view
    /\ (call'.op \in {"DatasetView", "transpose"} /\ Given \in permutations(GivenNdim)) =>
          /\ raised' = "None"
          /\ Viewing'
          /\ call'.op = "DatasetView" => view'.transposition = Given

\* C22: creating a view, or transposing one, with a transposition of the
\* wrong length or that is no permutation of the axes raises at that
\* call and changes no view; every view has a permutation of the axes of
\* its storage.
C22_InvalidTransposition == [][C22_Step]_vars

\* A view of three axes whose transposition with a repeated axis raised.
C22_Witness ==
    /\ Viewing
    /\ Len(view.dataset.shape) = 3
    /\ call.op = "transpose"
    /\ call.args[1] = <<0, 0, 1>>
    /\ raised = "DimensionalityError"
    /\ view.transposition = <<1, 2, 0>>

\* C23, as stated: a FrameBrowser constructed with n frames has the range
\* (0, n - 1), the one setNFrames(n) sets, and the index 0.
C23_Original ==
    (call.op = "FrameBrowser" /\ call.args[1] # <<>>) =>
        LET n == call.args[1][1]
        IN  /\ FrameBrowser_getRange(widget) = <<0, n - 1>>
            /\ FrameBrowser_getRange(widget) =
                   FrameBrowser_getRange(FrameBrowser_setNFrames(widget, n))
            /\ FrameBrowser_getValue(widget) = 0

\* The calls of the trace t made on a click or drag handler.
HandlerCalls(t) ==
    SelectSeq(t, LAMBDA e : e.cls \in {"ClickInteraction", "DragInteraction"})

\* C24, as stated: a ClickDragManager has a current dragger only in the
\* ClickOrDrag or Drag state of the gesture the dragger accepted; in Idle
\* it has none, and cancel() in Idle calls no handler.
C24_Original ==
    (pc = "ready" /\ machineCls = "ClickDragManager") =>
        /\ currentDragger # 0 =>
              state.cls \in {"ClickOrDrag.ClickOrDrag", "ClickOrDrag.Drag"}
        /\ state.cls = "ClickDragManager.Idle" => currentDragger = 0
        /\ (call.op = "cancel" /\ state.cls = "ClickDragManager.Idle") =>
              HandlerCalls(trace) = <<>>

\* C25: a drag handler of a ClickDragManager gets drag and end calls only
\* after its begin returned true and before its next end or cancel, so one
\* end at most for one begin; begin is called on the dragger that accepted
\* the press, so a cancelled dragger gets no drag or end call before it
\* accepted a new press and began again.
C25_DraggerCalls == [][Dragging(declined, trace').ok]_vars

\* A drag that was cancelled, then a move in the Drag state that called no
\* handler.
C25_Witness ==
    /\ call.op = "handleEvent"
    /\ call.args[1] = move
    /\ state.cls = "ClickOrDrag.Drag"
    /\ currentDragger = 0
    /\ declined.begun = 0
    /\ HandlerCalls(trace) = <<>>

\* The states of a gesture in progress.
GestureStates == {"ClickOrDrag.Click", "ClickOrDrag.ClickOrDrag", "ClickOrDrag.Drag"}

C26_Step ==
    (state.cls \in GestureStates /\ call'.op = "handleEvent"
        /\ call'.args[1] = release /\ EventBtn = state.button) =>
        /\ WentTo(StatesOf(machineCls)["idle"], <<>>)
        /\ raised' = "None"

\* C26: the release of the button stored by the Click, ClickOrDrag or Drag
\* state in progress always leaves the machine in Idle, whatever moves,
\* events of other buttons, answers of beginDrag and cancel() calls the
\* gesture saw.
C26_ReleaseEndsGesture == [][C26_Step]_vars

\* The release that left the Drag state of a drag cancelled before.
C26_Witness ==
    /\ call.op = "handleEvent"
    /\ call.args[1] = release
    /\ state.cls = "ClickDragManager.Idle"
    /\ Len(Ops(trace, {"leaveState"})) = 1
    /\ Ops(trace, {"leaveState"})[1].cls = "ClickOrDrag.Drag"
    /\ HandlerCalls(trace) = <<>>

C27_Step ==
    /\ (state.cls \in GestureStates /\ call'.op = "handleEvent"
            /\ call'.args[1] = press) => Ignored
    /\ (state.cls \in {"ClickOrDrag.Click", "ClickOrDrag.Drag"}
            /\ call'.op = "handleEvent" /\ call'.args[1] = release
            /\ EventBtn # state.button) => Ignored
    /\ (state.cls = "ClickOrDrag.Idle" /\ call'.op = "handleEvent"
            /\ call'.args[1] \in {move, release}) => Ignored

\* C27: while a gesture is in progress a press of any button, and in Click
\* or Drag a release of another button than the gesture's, is ignored: the
\* active state keeps its position and button and no callback is made; so
\* are a move and a release in Idle.
C27_IgnoredEvents == [][C27_Step]_vars

\* The release of the other button during a drag.
C27_Witness ==
    /\ call.op = "handleEvent"
    /\ call.args[1] = release
    /\ state.cls = "ClickOrDrag.Drag"
    /\ call.args[2][3] # state.button
    /\ Ops(trace, Hooks \cup Callbacks \cup {"goto"}) = <<>>

C28_Step ==
    /\ raised' # "AssertionError"
    /\ \A i \in DOMAIN trace' :
          (trace'[i].op = "beginDrag" /\ currentDragger # 0) =>
              trace'[i].args[3] = draggers[currentDragger]

\* C28: the assertion of ClickDragManager.beginDrag never fails: whenever
\* beginDrag(x, y, btn) runs with a current dragger, btn is the button of
\* that dragger.
C28_BeginDragAssertion == [][C28_Step]_vars

\* beginDrag ran for the right button, on the second dragger, while the
\* first dragger is one of the left button.
C28_Witness ==
    /\ machineCls = "ClickDragManager"
    /\ draggers = <<LEFT_BTN, RIGHT_BTN>>
    /\ Len(Ops(trace, {"beginDrag"})) = 1
    /\ Ops(trace, {"beginDrag"})[1].args[3] = RIGHT_BTN
    /\ Asked(trace, "DragInteraction.begin") = <<2>>

C29_Step ==
    /\ (call'.op = "handleEvent" /\ raised' = "KeyError") =>
          LET n == Len(trace')
          IN  /\ n >= 3
              /\ trace'[n - 1].op = "goto"
              /\ trace'[n - 1].args[1] \notin DOMAIN states
              /\ trace'[n].op = "leaveState"
              /\ trace'[n].on = trace'[n - 1].active
              /\ state'.id = trace'[n].on
              /\ state'.cls = trace'[n].cls
              /\ Len(Ops(trace', {"goto"})) = 1 => state' = state
              /\ Len(Ops(trace', {"enterState"})) = Len(Ops(trace', {"goto"})) - 1
              /\ pc' = "ready"
    /\ (call'.op = "handleEvent" /\ raised = "KeyError"
            /\ ExpectedHandlerName(call'.args[1]) \in methods[state.cls]) =>
          /\ trace'[1].op = "handler"
          /\ trace'[1].cls = state.cls
          /\ trace'[1].on = state.id

\* C29: a goto to a name that is no key of the states dict raises once the
\* active state was left: leaveState was called on it, no state is entered,
\* the left instance is still the active state, and the events that follow
\* are dispatched to it.
C29_GotoUnknownAfterLeave == [][C29_Step]_vars

\* A handler of the active state called goto with a name that is no key:
\* the state was left and is still the active one.
C29_Witness ==
    /\ pc = "ready"
    /\ call.op = "handleEvent"
    /\ raised = "KeyError"
    /\ Len(trace) = 3
    /\ trace[1].op = "handler"
    /\ trace[1].on = state.id
    /\ trace[3].op = "leaveState"
    /\ trace[3].on = state.id

\* The slider is playing: its timer runs.
Playing == widget.cls = "HorizontalSliderWithBrowser" /\ widget.active

\* Playing has stopped at the top of the range.
StoppedAtTop ==
    /\ ~widget.active
    /\ ~widget.checked
    /\ widget.index = widget.top

C30_Step ==
    (call'.op = "_updateState" /\ widget.active) =>
        /\ widget.index < widget.top =>
              /\ widget'.index = (IF widget.index + widget.step > widget.top
                                  THEN widget.top
                                  ELSE widget.index + widget.step)
              /\ widget'.active
              /\ widget'.checked
        /\ widget.index >= widget.top =>
              /\ ~widget'.checked
              /\ ~widget'.active
              /\ widget'.index = widget.index
        /\ widget'.bottom <= widget'.index
        /\ widget'.index <= widget'.top
        /\ widget'.step >= 1

\* C30: while a HorizontalSliderWithBrowser plays, a timeout with the index
\* below the top of the range sets the index to the index plus the step,
\* clipped to the top, and a timeout with the index at the top unchecks the
\* play button, which stops the timer; the index is in the range after every
\* timeout, and with no other input playing always stops, the index at the
\* top.
C30_PlayingStops == [][C30_Step]_vars /\ (Playing ~> StoppedAtTop)

\* Playing stopped at the top of a range set to (1, 3), the last step of 2
\* clipped.
C30_Witness ==
    /\ call.op = "_updateState"
    /\ StoppedAtTop
    /\ widget.bottom = 1
    /\ widget.top = 3
    /\ widget.step = 2

====
